---- MODULE Spec2Model ----
(***************************************************************************)
(* Verification model of organic-typography (ver.2).                       *)
(*                                                                         *)
(*   SpatialIndex   src/unnamed/part_000 (class SpatialIndex)              *)
(*   SemanticField  src/unnamed/part_000 (class SemanticField)             *)
(*   OrganicLayout  src/organic-typography-ver.2/js/OrganicLayout.js       *)
(*   System facade  src/unnamed/part_001 (OrganicTypographySystem)         *)
(*   Orchestrator   src/organic-typography-ver.2/js/                       *)
(*                  MetaCognitiveOrchestrator.js (its calls into the       *)
(*                  layout: initialize, grow, start, pause, reset)         *)
(*                                                                         *)
(* Lengths and coordinates are integers counted in 1/Scale of a canvas     *)
(* unit (Scale = 100: one step is 0.01), so 0.1-quantisation of the query  *)
(* cache key and the radius 0.01 are both representable.  Floating point   *)
(* rounding error is not modelled: sqrt(dx*dx+dy*dy) <= r is decided as    *)
(* dx*dx+dy*dy <= r*r.                                                     *)
(*                                                                         *)
(* Energies, strengths and parameters are integers counted in 1/Unit.      *)
(* The direction of primary growth and the outcomes of Math.random() are   *)
(* inputs of a tick.  The governor's caps (1000 nodes, 500 trajectory      *)
(* points) and the trajectory's own limit (1000, cut to 800) are scaled    *)
(* to MaxNodes, MaxTrajectory, TrajectoryLimit and TrajectoryKeep.  Of     *)
(* the narrative layers of the orchestrator (temporal context,             *)
(* metacognition, consciousness, integration) only the write to params is  *)
(* modelled; update() is taken to get through them without an exception.   *)
(*                                                                         *)
(* The specifications share the variables:                                 *)
(*   SpecIndex     a stand-alone SpatialIndex driven by arbitrary calls    *)
(*   Spec          the OrganicTypographySystem facade driving the growth   *)
(*                 engine (start / pause / update / reset)                 *)
(*   SpecNearest   a SpatialIndex answering findNearest()                  *)
(*   SpecFallback  the facade over a bare OrganicLayout                    *)
(*   SpecParams    the writers of the self-adapted parameters              *)
(*   SpecSpiral    a SemanticField identifying reading spirals             *)
(*   SpecSemantic  a SemanticField analysing a text                        *)
(*   SpecSmallCanvas  the facade of Spec on a canvas of 100 x 100          *)
(***************************************************************************)
EXTENDS Integers, Sequences, FiniteSets, TLC

(***************************************************************************)
(* Units and bounds                                                        *)
(***************************************************************************)
\* number of model steps per canvas unit
Scale == 100

\* stand-alone index: how many distinct query keys may sit in the cache
\* between two mutations (the program's own limit, maxCacheSize, is 1000)
MaxCached == 2

\* stand-alone index: number of distinct item ids offered to insert/remove
MaxIds == 2

maxCacheSize == 1000

Abs(v) == IF v < 0 THEN -v ELSE v

Min(a, b) == IF a < b THEN a ELSE b

Max(a, b) == IF a > b THEN a ELSE b

\* ceil(a / b) for a >= 0, b > 0
CeilDiv(a, b) == (a + b - 1) \div b

\* const x = v; Op(x): the value v is computed once and then named.  (A
\* name introduced by LET stands for its expression, which is evaluated
\* at every use; intermediate results that are used repeatedly, such as
\* the state between two steps of a handler, are bound with Let.)
Let(v, Op(_)) == CHOOSE r \in {Op(x) : x \in {v}} : TRUE

\* Math.sqrt(dx*dx + dy*dy) <= r, for a displacement <<dx, dy>>
\* (the guards keep the squares inside TLC's 32-bit integers)
DistLeq(dx, dy, r) ==
    /\ Abs(dx) <= r
    /\ Abs(dy) <= r
    /\ dx * dx + dy * dy <= r * r

\* Math.sqrt(dx*dx + dy*dy) < r
DistLess(dx, dy, r) ==
    /\ Abs(dx) < r
    /\ Abs(dy) < r
    /\ dx * dx + dy * dy < r * r

(***************************************************************************)
(* Values of the JavaScript heap that the index sees                       *)
(***************************************************************************)
\* item.id of an item without id (undefined): the only falsy id of the model
NoId == <<>>

\* null / undefined passed where an object is expected
Null == [null |-> TRUE]

\* {x, y}; a position whose x is not a number is the record without x
MkPos(x, y) == [x |-> x, y |-> y]

\* {id, position: {x, y}}; an item without position is the record without it
MkItem(id, x, y) == [id |-> id, position |-> MkPos(x, y)]

\* typeof position.x === 'number' && typeof position.y === 'number'
\* (every coordinate of the model that is present is a finite number)
NumericPosition(p) == "x" \in DOMAIN p /\ "y" \in DOMAIN p

VARIABLES
    spatialIndex,   \* the SpatialIndex object: width, height, cellSize,
                    \* gridWidth, gridHeight, grid, itemCount, queryCache
    lastCall,       \* the last call made (on the stand-alone index, or on
                    \* the system facade) and what it did
    layout,         \* the OrganicLayout object of the orchestrator, without
                    \* its spatialIndex field (kept in spatialIndex)
    heap,           \* the node objects, by reference: identity of a node
                    \* object is its place in this sequence, not its id
    resetCount      \* the number of reset() calls made on the facade

(***************************************************************************)
(* class SpatialIndex                                                      *)
(***************************************************************************)
\* constructor(width, height, cellSize); arguments are given in steps
NewSpatialIndex(width, height, cellSize) ==
    [ width      |-> Max(1, width),
      height     |-> Max(1, height),
      cellSize   |-> Max(1, cellSize),
      gridWidth  |-> CeilDiv(Max(1, width), Max(1, cellSize)),
      gridHeight |-> CeilDiv(Max(1, height), Max(1, cellSize)),
      grid       |-> << >>,
      itemCount  |-> 0,
      queryCache |-> << >> ]

\* getGridKey(x, y): the cell of a position, clamped to the grid.  Its only
\* caller, insert(), has validated x and y, so the '0,0' answer for
\* non-numbers is never produced.
getGridKey(si, x, y) ==
    LET gridX == x \div si.cellSize
        gridY == y \div si.cellSize
        clampedX == Max(0, Min(si.gridWidth - 1, gridX))
        clampedY == Max(0, Min(si.gridHeight - 1, gridY))
    IN  <<clampedX, clampedY>>

\* clearQueryCache()
clearQueryCache(si) == [si EXCEPT !.queryCache = << >>]

\* findItemById(id) !== null
findItemById(si, id) ==
    \E key \in DOMAIN si.grid :
        \E i \in 1..Len(si.grid[key]) : si.grid[key][i].id = id

KeepOthers(items, id) ==
    LET Other(it) == it.id # id IN SelectSeq(items, Other)

RECURSIVE SumOver(_, _)
SumOver(f, S) ==
    IF S = {} THEN 0
    ELSE LET k == CHOOSE k \in S : TRUE IN f[k] + SumOver(f, S \ {k})

\* remove(id) that forgets clearQueryCache()
removeKeepCache(si, id) ==
    LET hit     == [key \in DOMAIN si.grid |->
                       Len(si.grid[key]) - Len(KeepOthers(si.grid[key], id))]
        kept    == {key \in DOMAIN si.grid :
                       hit[key] = 0 \/ KeepOthers(si.grid[key], id) # << >>}
    IN  [ si  |-> [si EXCEPT
                       !.grid = [key \in kept |-> KeepOthers(si.grid[key], id)],
                       !.itemCount = si.itemCount - SumOver(hit, DOMAIN si.grid)],
          ret |-> \E key \in DOMAIN si.grid : hit[key] > 0 ]

\* remove(id): every entry with that id leaves its cell, a cell emptied by
\* a removal is deleted, the cache is cleared when something was removed
remove(si, id) ==
    LET hit     == [key \in DOMAIN si.grid |->
                       Len(si.grid[key]) - Len(KeepOthers(si.grid[key], id))]
        removed == \E key \in DOMAIN si.grid : hit[key] > 0
        kept    == {key \in DOMAIN si.grid :
                       hit[key] = 0 \/ KeepOthers(si.grid[key], id) # << >>}
        si1     == [si EXCEPT
                       !.grid = [key \in kept |-> KeepOthers(si.grid[key], id)],
                       !.itemCount = si.itemCount - SumOver(hit, DOMAIN si.grid)]
    IN  [ si  |-> IF removed THEN clearQueryCache(si1) ELSE si1,
          ret |-> removed ]

\* the validation at the head of insert()
ValidItem(item) ==
    /\ item # Null
    /\ "position" \in DOMAIN item
    /\ item.position # Null
    /\ NumericPosition(item.position)

\* grid.get(key).push(item), creating the cell on first use
PushToCell(grid, key, item) ==
    IF key \in DOMAIN grid
    THEN [grid EXCEPT ![key] = Append(@, item)]
    ELSE grid @@ (key :> <<item>>)

\* insert(item) without the duplicate check
insertKeepStale(si, item) ==
    IF ~ValidItem(item) THEN [si |-> si, ret |-> FALSE]
    ELSE LET key == getGridKey(si, item.position.x, item.position.y)
             si2 == [si EXCEPT !.grid = PushToCell(si.grid, key, item),
                               !.itemCount = si.itemCount + 1]
         IN  [si |-> clearQueryCache(si2), ret |-> TRUE]

\* insert(item)
insert(si, item) ==
    IF ~ValidItem(item) THEN [si |-> si, ret |-> FALSE]
    ELSE LET si1 == IF item.id # NoId /\ findItemById(si, item.id)
                    THEN remove(si, item.id).si
                    ELSE si
             key == getGridKey(si1, item.position.x, item.position.y)
             si2 == [si1 EXCEPT !.grid = PushToCell(si1.grid, key, item),
                                !.itemCount = si1.itemCount + 1]
         IN  [si |-> clearQueryCache(si2), ret |-> TRUE]

\* Number.prototype.toFixed(1) of v/Scale: sign and tenths, rounding the
\* magnitude half up ("-0.0" and "0.0" are different strings).  The inputs
\* of the model avoid exact ties, whose outcome in the program depends on
\* the binary representation of the number.
toFixed1(v) ==
    <<IF v < 0 THEN "-" ELSE "", (Abs(v) * 20 + Scale) \div (2 * Scale)>>

\* the cache key of query(position, radius)
cacheKey(x, y, radius) == <<toFixed1(x), toFixed1(y), toFixed1(radius)>>

\* the items of one cell that lie within radius of the position
CellHits(si, key, x, y, radius) ==
    IF key \notin DOMAIN si.grid THEN << >>
    ELSE LET Near(it) == DistLeq(it.position.x - x, it.position.y - y, radius)
         IN  SelectSeq(si.grid[key], Near)

RECURSIVE ScanCells(_, _, _, _, _, _, _)
\* the double loop of query(): dx outer, dy inner, cells off the grid skipped
ScanCells(si, x, y, radius, gridRadius, n, acc) ==
    LET side == 2 * gridRadius + 1 IN
    IF n >= side * side THEN acc
    ELSE LET gridX == (x \div si.cellSize) - gridRadius + (n \div side)
             gridY == (y \div si.cellSize) - gridRadius + (n % side)
             off   == gridX < 0 \/ gridX >= si.gridWidth
                      \/ gridY < 0 \/ gridY >= si.gridHeight
         IN  ScanCells(si, x, y, radius, gridRadius, n + 1,
                       IF off THEN acc
                       ELSE acc \o CellHits(si, <<gridX, gridY>>, x, y, radius))

\* the validation of query() without the test radius < 0
ValidPositionOnly(position, radius) ==
    /\ position # Null
    /\ NumericPosition(position)

\* the validation at the head of query() (every radius of the model is a
\* number, possibly negative)
ValidQuery(position, radius) ==
    /\ position # Null
    /\ NumericPosition(position)
    /\ radius >= 0

\* query(position, radius)
query(si, position, radius) ==
    IF ~ValidQuery(position, radius) THEN [si |-> si, ret |-> << >>]
    ELSE LET ck == cacheKey(position.x, position.y, radius) IN
         IF ck \in DOMAIN si.queryCache
         THEN [si |-> si, ret |-> si.queryCache[ck]]
         ELSE LET results == ScanCells(si, position.x, position.y, radius,
                                       CeilDiv(radius, si.cellSize), 0, << >>)
              IN  [ si  |-> IF Cardinality(DOMAIN si.queryCache) < maxCacheSize
                            THEN [si EXCEPT !.queryCache = @ @@ (ck :> results)]
                            ELSE si,
                    ret |-> results ]

\* query(...args): the call with its list of arguments.  typeof radius is
\* 'undefined' when the call passes no radius, and the validation answers
\* [] (lines 877-885) whatever the position is.
queryArguments(si, args) ==
    IF Len(args) < 2 THEN [si |-> si, ret |-> << >>]
    ELSE query(si, args[1], args[2])

\* update(item) = remove + insert
update(si, item) ==
    IF item = Null \/ item.id = NoId THEN [si |-> si, ret |-> FALSE]
    ELSE insert(remove(si, item.id).si, item)

\* clear()
clear(si) ==
    clearQueryCache([si EXCEPT !.grid = << >>, !.itemCount = 0])

(***************************************************************************)
(* SpecIndex: a SpatialIndex of 2 x 1 cells of side 1.0 under arbitrary    *)
(* calls.  Positions lie inside the grid (0, 0.04), just outside it (2.04) *)
(* and more than one cell outside it (3.04); 0 and 0.04 share a cache key, *)
(* as do the radii 0.01 and 0.04.                                          *)
(***************************************************************************)
IndexIds == {<<"item", k>> : k \in 1..MaxIds}

IndexXs == {0, 4, 204, 304}

IndexYs == {0}

IndexRadii == {1, 4}

IndexItems == {MkItem(id, x, y) : id \in IndexIds, x \in IndexXs, y \in IndexYs}

\* items that insert() and update() must refuse
MalformedItems ==
    { Null,
      [id |-> <<"item", 1>>],
      [id |-> <<"item", 1>>, position |-> [y |-> 0]] }

IndexPositions == {MkPos(x, y) : x \in IndexXs, y \in IndexYs}

QueryInputs == IndexPositions \X IndexRadii

\* argument lists that query() must refuse: no position, a position
\* without a numeric x, a negative radius, no radius
MalformedQueries ==
    { <<Null, 1>>,
      <<[y |-> 0], 1>>,
      <<MkPos(0, 0), -1>>,
      <<MkPos(0, 0)>> }

NoCall == [op |-> "none"]

\* the stand-alone index has no layout and no node objects
NoLayout == [text |-> << >>]

InitIndex ==
    /\ spatialIndex = NewSpatialIndex(2 * Scale, 1 * Scale, 1 * Scale)
    /\ lastCall = NoCall
    /\ layout = NoLayout
    /\ heap = << >>
    /\ resetCount = 0

\* had: whether an entry with the id was indexed when the call was made;
\* cached: whether the query cache held a result when the call was made
CallInsert ==
    \E item \in IndexItems \cup MalformedItems :
        LET r == insert(spatialIndex, item) IN
        /\ spatialIndex' = r.si
        /\ lastCall' = [op |-> "insert", item |-> item, ret |-> r.ret,
                        had |-> item # Null /\ findItemById(spatialIndex, item.id),
                        cached |-> spatialIndex.queryCache # << >>]
        /\ UNCHANGED <<layout, heap, resetCount>>

\* hit: whether the result came from the query cache
CallQuery ==
    \E q \in QueryInputs \cup MalformedQueries :
        LET r   == queryArguments(spatialIndex, q)
            hit == /\ q \in QueryInputs
                   /\ cacheKey(q[1].x, q[1].y, q[2]) \in DOMAIN spatialIndex.queryCache
        IN
        /\ \/ q \in MalformedQueries
           \/ hit
           \/ Cardinality(DOMAIN spatialIndex.queryCache) < MaxCached
        /\ spatialIndex' = r.si
        /\ lastCall' = [op |-> "query", args |-> q, ret |-> r.ret, hit |-> hit]
        /\ UNCHANGED <<layout, heap, resetCount>>

CallRemove ==
    \E id \in IndexIds :
        LET r == remove(spatialIndex, id) IN
        /\ spatialIndex' = r.si
        /\ lastCall' = [op |-> "remove", id |-> id, ret |-> r.ret,
                        had |-> findItemById(spatialIndex, id),
                        cached |-> spatialIndex.queryCache # << >>]
        /\ UNCHANGED <<layout, heap, resetCount>>

CallUpdate ==
    \E item \in IndexItems \cup MalformedItems :
        LET r == update(spatialIndex, item) IN
        /\ spatialIndex' = r.si
        /\ lastCall' = [op |-> "update", item |-> item, ret |-> r.ret,
                        had |-> item # Null /\ findItemById(spatialIndex, item.id)]
        /\ UNCHANGED <<layout, heap, resetCount>>

CallClear ==
    /\ spatialIndex' = clear(spatialIndex)
    /\ lastCall' = [op |-> "clear"]
    /\ UNCHANGED <<layout, heap, resetCount>>

vars == <<spatialIndex, lastCall, layout, heap, resetCount>>

NextIndex ==
    \/ CallInsert
    \/ CallQuery
    \/ CallRemove
    \/ CallUpdate
    \/ CallClear

SpecIndex == InitIndex /\ [][NextIndex]_vars

(***************************************************************************)
(* Properties of the SpatialIndex (checked under SpecIndex)                *)
(***************************************************************************)
Range(seq) == {seq[i] : i \in 1..Len(seq)}

\* every entry of every cell
IndexedItems(si) == UNION {Range(si.grid[key]) : key \in DOMAIN si.grid}

\* the number of entries stored in the cells
RECURSIVE CellEntries(_, _)
CellEntries(grid, keys) ==
    IF keys = {} THEN 0
    ELSE LET key == CHOOSE key \in keys : TRUE
         IN  Len(grid[key]) + CellEntries(grid, keys \ {key})

\* a scan of all indexed items, without grid and without cache
BruteForce(si, position, radius) ==
    {it \in IndexedItems(si) :
        DistLeq(it.position.x - position.x, it.position.y - position.y, radius)}

\* the radius 0.01
Radius001 == Scale \div 100

\* what the next query(position, radius) would return
NextQuery(position, radius) == Range(query(spatialIndex, position, radius).ret)

Mutated ==
    \/ lastCall.op = "clear"
    \/ lastCall.op \in {"insert", "remove", "update"} /\ lastCall.ret

\* C1 (first half): every successful insert, remove, update or clear leaves
\* the query cache empty.
C1_MutationEmptiesCache == Mutated => spatialIndex.queryCache = << >>

\* C1: every successful mutation empties the query cache, and a node that
\* has just been inserted is contained in the next query(p, r) for every p
\* and r with the node within distance r of p.
C1_CacheCoherent ==
    /\ C1_MutationEmptiesCache
    /\ (lastCall.op = "insert" /\ lastCall.ret) =>
          \A q \in QueryInputs :
              DistLeq(lastCall.item.position.x - q[1].x,
                      lastCall.item.position.y - q[1].y, q[2])
                  => lastCall.item \in NextQuery(q[1], q[2])

\* C2: every indexed node is contained in query(node.position, 0.01).
C2_NodeFoundAtOwnPosition ==
    \A it \in IndexedItems(spatialIndex) : it \in NextQuery(it.position, Radius001)

\* C3: for every position and radius, after any earlier queries, query
\* returns exactly the indexed nodes within Euclidean distance radius.
C3_QueryIsBruteForce ==
    \A q \in QueryInputs :
        NextQuery(q[1], q[2]) = BruteForce(spatialIndex, q[1], q[2])

\* C4: no query returns a node that is not indexed (so none returns a
\* removed id until it is inserted again); remove returns true exactly when
\* the id was indexed, leaves no entry with the id and no empty cell.
C4_RemovedNeverReturned ==
    /\ \A q \in QueryInputs : NextQuery(q[1], q[2]) \subseteq IndexedItems(spatialIndex)
    /\ lastCall.op = "remove" =>
          /\ lastCall.ret = lastCall.had
          /\ ~findItemById(spatialIndex, lastCall.id)
          /\ \A q \in QueryInputs :
                \A it \in NextQuery(q[1], q[2]) : it.id # lastCall.id
    /\ \A key \in DOMAIN spatialIndex.grid : spatialIndex.grid[key] # << >>

\* a remove that found its id while a query result was cached and another
\* node stays indexed
C4_Witness ==
    /\ lastCall.op = "remove"
    /\ lastCall.ret
    /\ lastCall.cached
    /\ IndexedItems(spatialIndex) # {}

\* C5: every entry lies in the cell of its position, no id is indexed
\* twice, an insert leaves exactly the inserted entry for its id, and
\* itemCount is the number of entries.
C5_OneCellPerNode ==
    /\ \A key \in DOMAIN spatialIndex.grid :
          \A i \in 1..Len(spatialIndex.grid[key]) :
              LET it == spatialIndex.grid[key][i] IN
              /\ getGridKey(spatialIndex, it.position.x, it.position.y) = key
              /\ \A key2 \in DOMAIN spatialIndex.grid :
                    \A j \in 1..Len(spatialIndex.grid[key2]) :
                        spatialIndex.grid[key2][j].id = it.id
                            => key2 = key /\ j = i
    /\ (lastCall.op \in {"insert", "update"} /\ lastCall.ret) =>
          {it \in IndexedItems(spatialIndex) : it.id = lastCall.item.id}
              = {lastCall.item}
    /\ spatialIndex.itemCount
          = CellEntries(spatialIndex.grid, DOMAIN spatialIndex.grid)

\* an id that was already indexed has been inserted again, next to another
\* node
C5_Witness ==
    /\ lastCall.op = "insert"
    /\ lastCall.ret
    /\ lastCall.had
    /\ Cardinality(IndexedItems(spatialIndex)) = 2

(***************************************************************************)
(* Numbers of the growth engine                                            *)
(*                                                                         *)
(* Energies, strengths, distances in meaning and parameters are integers   *)
(* counted in 1/Unit.  Sines and cosines come from a table in thousandths  *)
(* at multiples of 7.5 degrees, which contains the 24 directions tried by  *)
(* createSemanticBranch (15 degrees apart) and the 16 directions tried by  *)
(* createSemanticAvoidanceBranch (22.5 degrees apart).                     *)
(***************************************************************************)
Unit == 1000

\* a / b rounded to the nearest integer, for b > 0
RoundDiv(a, b) ==
    IF a >= 0 THEN (2 * a + b) \div (2 * b) ELSE -((2 * (-a) + b) \div (2 * b))

RECURSIVE isqrtIn(_, _, _)
\* the largest r in lo..hi with r * r <= n
isqrtIn(n, lo, hi) ==
    IF lo >= hi THEN lo
    ELSE LET mid == (lo + hi + 1) \div 2
         IN  IF mid * mid <= n THEN isqrtIn(n, mid, hi)
                               ELSE isqrtIn(n, lo, mid - 1)

\* floor(Math.sqrt(n)) for 0 <= n < 2^31
isqrt(n) == isqrtIn(n, 0, 46340)

\* 1000 * cos(j * 7.5 degrees) for j = 0..12
CosQuarter == <<1000, 991, 966, 924, 866, 793, 707, 609, 500, 383, 259, 131, 0>>

\* 1000 * Math.cos(j * 7.5 degrees)
Cos48(j) ==
    LET k == j % 48 IN
    IF k <= 12 THEN CosQuarter[k + 1]
    ELSE IF k <= 24 THEN -CosQuarter[24 - k + 1]
    ELSE IF k <= 36 THEN -CosQuarter[k - 24 + 1]
    ELSE CosQuarter[48 - k + 1]

\* 1000 * Math.sin(j * 7.5 degrees)
Sin48(j) == Cos48(j + 36)

\* getDistance(pos1, pos2) in steps, rounded down; beyond 300 canvas units
\* (further than every threshold of the program) the larger coordinate
\* difference stands for the distance
getDistance(pos1, pos2) ==
    LET dx == Abs(pos1.x - pos2.x)
        dy == Abs(pos1.y - pos2.y)
    IN  IF dx > 300 * Scale \/ dy > 300 * Scale THEN Max(dx, dy)
        ELSE isqrt(dx * dx + dy * dy)

(***************************************************************************)
(* class SemanticField                                                     *)
(*                                                                         *)
(* A text is a sequence of one-character strings, a word a sequence of     *)
(* characters.  The graph is keyed by words; the engine looks it up with   *)
(* the single character of a node, that is with the one-letter word.       *)
(***************************************************************************)
\* the separators of tokenize(): white space (the ideographic punctuation
\* of the pattern behaves like the space and is not in the model's texts)
Separators == {" ", "\t", "\n"}

RECURSIVE tokenizeFrom(_, _, _)
tokenizeFrom(text, i, word) ==
    LET done == IF word = << >> THEN << >> ELSE <<word>> IN
    IF i > Len(text) THEN done
    ELSE IF text[i] \in Separators THEN done \o tokenizeFrom(text, i + 1, << >>)
    ELSE tokenizeFrom(text, i + 1, Append(word, text[i]))

\* tokenize(text): the non-empty words between separators
tokenize(text) == tokenizeFrom(text, 1, << >>)

\* calculateSemanticSimilarity(getWordEmbedding(w1), getWordEmbedding(w2)):
\* the cosine of the two hash embeddings.  A word and itself give 1; the
\* values of the one-letter words a, b, c are those the program computes
\* (-0.247, -0.341, 0.504); other pairs of different words do not occur
\* in the texts of the model.
calculateSemanticSimilarity(w1, w2) ==
    IF w1 = w2 THEN Unit
    ELSE IF {w1, w2} = {<<"a">>, <<"b">>} THEN -((247 * Unit) \div 1000)
    ELSE IF {w1, w2} = {<<"a">>, <<"c">>} THEN -((341 * Unit) \div 1000)
    ELSE IF {w1, w2} = {<<"b">>, <<"c">>} THEN (504 * Unit) \div 1000
    ELSE 0

\* new SemanticField()
NewSemanticField ==
    [ semanticGraph     |-> << >>,
      collocationMatrix |-> << >>,
      readingHistory    |-> << >> ]

\* analyzeSemanticStructure(text) on a new field: a connection word_i ->
\* word_j for i < j with similarity > 0.3, and 0.1 per occurrence of a
\* bigram of words in the collocation matrix
analyzeSemanticStructure(text) ==
    LET words == tokenize(text)
        n     == Len(words)
        pairs == {<<words[i], words[j]>> : i \in 1..n, j \in 1..n}
        conn  == {p \in pairs :
                     /\ \E i \in 1..n : \E j \in (i + 1)..n :
                            p = <<words[i], words[j]>>
                     /\ 10 * calculateSemanticSimilarity(p[1], p[2]) > 3 * Unit}
        bigrams == {<<words[i], words[i + 1]>> : i \in 1..(n - 1)}
    IN  [ semanticGraph     |->
              [p \in conn |-> calculateSemanticSimilarity(p[1], p[2])],
          collocationMatrix |->
              [b \in bigrams |->
                  (Unit * Cardinality({i \in 1..(n - 1) :
                                          <<words[i], words[i + 1]>> = b}))
                      \div 10],
          readingHistory    |-> << >> ]

\* getSemanticDistance(word1, word2) for the characters of two nodes
getSemanticDistance(sf, char1, char2) ==
    IF <<<<char1>>, <<char2>>>> \in DOMAIN sf.semanticGraph
    THEN Unit - sf.semanticGraph[<<<<char1>>, <<char2>>>>]
    ELSE Unit

\* getCollocationStrength(word1, word2)
getCollocationStrength(sf, char1, char2) ==
    IF <<<<char1>>, <<char2>>>> \in DOMAIN sf.collocationMatrix
    THEN sf.collocationMatrix[<<<<char1>>, <<char2>>>>]
    ELSE 0

\* getSemanticComplexity(word): the number of words connected from it, or 1
getSemanticComplexity(sf, char) ==
    LET size == Cardinality({p \in DOMAIN sf.semanticGraph : p[1] = <<char>>})
    IN  IF size > 0 THEN size ELSE 1

\* calculateCognitiveLoad(node), in 1/Unit: a node's char has length 1,
\* getContextualLoad is 0.01 per entry of the reading history
calculateCognitiveLoad(sf, node) ==
    (Unit + Unit * getSemanticComplexity(sf, node.char)
          + (Unit * Len(sf.readingHistory)) \div 100) \div 3

\* simulateReadingBody(currentNode, textNodes): what it leaves behind is
\* one more entry of the reading history (the direction it returns is part
\* of the heading, see Headings)
simulateReadingBody(sf, node) ==
    [sf EXCEPT !.readingHistory =
        Append(@, [ node          |-> node.id,
                    eyePosition   |-> node.position,
                    cognitiveLoad |-> calculateCognitiveLoad(sf, node) ])]

RECURSIVE SumSeq(_, _)
\* the sum of f[1..n]
SumSeq(f, n) == IF n = 0 THEN 0 ELSE f[n] + SumSeq(f, n - 1)

\* calculateAverageCognitiveLoad()
calculateAverageCognitiveLoad(sf) ==
    IF sf.readingHistory = << >> THEN 0
    ELSE SumSeq([i \in 1..Len(sf.readingHistory) |->
                    sf.readingHistory[i].cognitiveLoad],
                Len(sf.readingHistory)) \div Len(sf.readingHistory)

\* the unit vectors of the table, <<cos, sin>> in 1/1000
Directions == [j \in -23..24 |-> <<Cos48(j), Sin48(j)>>]

\* the directions of the table in the closed quadrant of a vector (the
\* nearest direction of the table lies among them)
Quadrant(dy, dx) ==
    IF dx >= 0 /\ dy >= 0 THEN 0..12
    ELSE IF dx < 0 /\ dy >= 0 THEN 12..24
    ELSE IF dx < 0 THEN (-23..-12) \cup {24}
    ELSE -12..0

\* Math.atan2(dy, dx) of a non-zero vector, in units of 7.5 degrees, in
\* (-24, 24]: the direction of the table that the vector points to
atan2(dy, dx) ==
    Let(Quadrant(dy, dx), LAMBDA Q :
    Let([j \in Q |-> dx * Directions[j][1] + dy * Directions[j][2]],
        LAMBDA dot : CHOOSE j \in Q : \A k \in Q : dot[k] <= dot[j]))

\* angle2 - angle1 brought into [-pi, pi]
normalizeAngle(angleDiff) ==
    IF angleDiff > 24 THEN angleDiff - 48
    ELSE IF angleDiff < -24 THEN angleDiff + 48
    ELSE angleDiff

RECURSIVE totalAngle(_, _)
\* the loop of isSpirialPattern() from i (1-based: the middle points are
\* 2..Len - 1); a middle point next to a segment shorter than 0.001 in x
\* and in y adds nothing
totalAngle(positions, i) ==
    IF i > Len(positions) - 1 THEN 0
    ELSE LET dx1 == positions[i].x - positions[i - 1].x
             dy1 == positions[i].y - positions[i - 1].y
             dx2 == positions[i + 1].x - positions[i].x
             dy2 == positions[i + 1].y - positions[i].y
         IN  (IF (dx1 = 0 /\ dy1 = 0) \/ (dx2 = 0 /\ dy2 = 0) THEN 0
              ELSE Abs(normalizeAngle(atan2(dy2, dx2) - atan2(dy1, dx1))))
             + totalAngle(positions, i + 1)

\* isSpirialPattern(sequence)
isSpirialPattern(sequence) ==
    IF Len(sequence) < 3 THEN FALSE
    ELSE Let([i \in 1..Len(sequence) |-> sequence[i].eyePosition],
             LAMBDA positions : totalAngle(positions, 2) > 24)

\* identifyReadingSpirals(nodes): the windows of 5 entries of the reading
\* history that are spirals
identifyReadingSpirals(sf) ==
    IF Len(sf.readingHistory) < 5 THEN << >>
    ELSE LET windows == [i \in 1..Len(sf.readingHistory) - 4 |->
                            SubSeq(sf.readingHistory, i, i + 4)]
         IN  SelectSeq(windows, isSpirialPattern)

\* getSemanticDistance(word1, word2) for two words
getWordDistance(sf, word1, word2) ==
    IF <<word1, word2>> \in DOMAIN sf.semanticGraph
    THEN Unit - sf.semanticGraph[<<word1, word2>>]
    ELSE Unit

RECURSIVE expandFrom(_, _, _, _, _, _)
\* the loop of expandCluster() over allNodes from position i: cluster is
\* the list of node objects (references) gathered so far, visited the set
\* of ids
expandFrom(sf, objects, seedNode, allNodes, i, acc) ==
    IF i > Len(allNodes) THEN acc
    ELSE LET node == objects[allNodes[i]] IN
         IF node.id \in acc.visited
         THEN expandFrom(sf, objects, seedNode, allNodes, i + 1, acc)
         ELSE IF 10 * (Unit - getSemanticDistance(sf, seedNode.char, node.char))
                     > 7 * Unit
         THEN expandFrom(sf, objects, seedNode, allNodes, i + 1,
                         [ cluster |-> Append(acc.cluster, allNodes[i]),
                           visited |-> acc.visited \cup {node.id} ])
         ELSE expandFrom(sf, objects, seedNode, allNodes, i + 1, acc)

\* an expansion that forgets which nodes earlier clusters have taken
expandForgetful(sf, objects, seedRef, allNodes, visited) ==
    expandFrom(sf, objects, objects[seedRef], allNodes, 1,
               [ cluster |-> <<seedRef>>,
                 visited |-> {objects[seedRef].id} ])

\* expandCluster(seedNode, allNodes, visited): the cluster and the visited
\* set it leaves
expandCluster(sf, objects, seedRef, allNodes, visited) ==
    expandFrom(sf, objects, objects[seedRef], allNodes, 1,
               [ cluster |-> <<seedRef>>,
                 visited |-> visited \cup {objects[seedRef].id} ])

RECURSIVE clustersFrom(_, _, _, _, _)
\* the loop of identifySemanticClusters() from position i.  expanded keeps
\* every cluster expandCluster() returned, clusters those of more than 2
\* members, which are what the function returns.
clustersFrom(sf, objects, nodes, i, acc) ==
    IF i > Len(nodes) THEN acc
    ELSE IF objects[nodes[i]].id \in acc.visited
    THEN clustersFrom(sf, objects, nodes, i + 1, acc)
    ELSE Let(expandCluster(sf, objects, nodes[i], nodes, acc.visited),
             LAMBDA r :
                 clustersFrom(sf, objects, nodes, i + 1,
                     [ clusters |-> IF Len(r.cluster) > 2
                                    THEN Append(acc.clusters, r.cluster)
                                    ELSE acc.clusters,
                       expanded |-> Append(acc.expanded, r.cluster),
                       visited  |-> r.visited ]))

\* identifySemanticClusters(nodes), with the record of clustersFrom
expandAllClusters(sf, objects, nodes) ==
    clustersFrom(sf, objects, nodes, 1,
                 [clusters |-> << >>, expanded |-> << >>, visited |-> {}])

\* identifySemanticClusters(nodes)
identifySemanticClusters(sf, objects, nodes) ==
    expandAllClusters(sf, objects, nodes).clusters

\* a recognizer that reports every connection as a bridge
reportEveryConnection(sf, connections) == connections

\* the string `node_${k}` of an id, as a word
IdWord(id) == <<"node_", ToString(id[2])>>

\* the test of identifySemanticBridges() for one connection: from and to
\* of a connection are ids (strings), so fromChar and toChar are the ids
InBridgeRange(gap) == 10 * gap > 8 * Unit /\ 100 * gap < 95 * Unit

\* identifySemanticBridges(connections)
identifySemanticBridges(sf, connections) ==
    LET IsBridge(conn) ==
            InBridgeRange(getWordDistance(sf, IdWord(conn.from), IdWord(conn.to)))
    IN  SelectSeq(connections, IsBridge)

(***************************************************************************)
(* class OrganicLayout                                                     *)
(*                                                                         *)
(* A node object is a record id, char, position, energy, generation,       *)
(* textIndex, parent (an id), children (ids).  The lists nodes and         *)
(* growthQueue hold references into heap.  The operators below work on a   *)
(* world: the layout, the heap, the spatial index and, during a tick, the  *)
(* newQueue of grow().                                                     *)
(*                                                                         *)
(* The direction of primary growth is the result of floating point         *)
(* trigonometry over the reading body, the interference wave and           *)
(* Math.random() (applyCurvature); it is always a unit vector.  The model  *)
(* takes it as an input of the tick, drawn from Headings.  The fields of   *)
(* a node that only feed this direction or the rendering (velocity,        *)
(* curvature, semanticResonance, readingDepth, temporalLayer) and the      *)
(* observational lists collocationFields and selfReflectionHistory are     *)
(* not part of the state.                                                  *)
(***************************************************************************)
\* the governor's cap on the node list (maxNodes, 1000 in the program),
\* scaled down
MaxNodes == 4

\* the governor's cap on the trajectory (maxTrajectory, 500 in the
\* program), scaled down
MaxTrajectory == 2

\* the trajectory's own limit and what recordReadingTrajectory() keeps of
\* it (1000 and 800 in the program), scaled down in the same order
TrajectoryLimit == 4

TrajectoryKeep == 3

\* the number of nodes below which updateEmergentPatterns() does nothing
\* (10 in the program), scaled down with the cap on the node list
MinPatternNodes == 3

\* how many of the nodes of one frontier may win the draw
\* Math.random() < branchProbability in one tick
MaxBranches == 2

\* the canvas of OrganicTypographySystem.initialize() when the caller gives
\* none
canvasWidth == 800

canvasHeight == 600

\* the texts the system is constructed with: "a a" (a repeated one-letter
\* word), "abc" and "ab" (one word each)
Texts == { <<"a", " ", "a">>, <<"a", "b", "c">>, <<"a", "b">> }

\* 100 + Math.random() * 50, in steps
SeedRadii == {100 * Scale, 110 * Scale}

\* the headings of primary growth, as multiples of 7.5 degrees: 0 and 90
Headings == {0, 12}

NodeId(k) == <<"node", k>>

\* parent: null
NoParent == << >>

\* what the spatial index and nearbyNodes hold of a node object
NodeView(node, ref) ==
    [ref |-> ref, id |-> node.id, char |-> node.char, position |-> node.position]

\* this.params of the constructor (the entries the model reads)
InitialParams ==
    [ initialEnergy         |-> 100 * Unit,
      energyDecay           |-> (3 * Unit) \div 10,
      coilingThreshold      |-> 30 * Unit,
      characterSpacing      |-> 18 * Scale,
      semanticGravity       |-> (6 * Unit) \div 10,
      interferenceAmplitude |-> (4 * Unit) \div 10 ]

\* new OrganicLayout(text, canvasWidth, canvasHeight), as a world
NewOrganicLayout(text, width, height) ==
    [ layout |-> [ text              |-> text,
                   canvasWidth       |-> width,
                   canvasHeight      |-> height,
                   nodes             |-> << >>,
                   connections       |-> << >>,
                   growthQueue       |-> << >>,
                   generation        |-> 0,
                   isGrowing         |-> FALSE,
                   semanticField     |-> analyzeSemanticStructure(text),
                   readingTrajectory |-> << >>,
                   emergentPatterns  |-> << >>,
                   params            |-> InitialParams ],
      heap         |-> << >>,
      spatialIndex |-> NewSpatialIndex(width * Scale, height * Scale, 50 * Scale),
      newQueue     |-> << >>,
      steps        |-> << >> ]

\* Math.max(2, Math.floor(Math.sqrt(text.length) / 5))
seedCountTwo(text) == Max(2, isqrt(Len(text)) \div 5)

\* Math.max(3, Math.floor(Math.sqrt(text.length) / 5))
seedCount(text) == Max(3, isqrt(Len(text)) \div 5)

\* the displacement of length len (in steps) in direction j * 7.5 degrees
Step(j, len) ==
    [dx |-> RoundDiv(Cos48(j) * len, 1000), dy |-> RoundDiv(Sin48(j) * len, 1000)]

RECURSIVE initializeFrom(_, _, _)
\* the loop of initialize(), from seed i on; radii[i + 1] is the radius
\* drawn for seed i (the texts of the model are not empty: text[0] exists)
initializeFrom(w, i, radii) ==
    LET L == w.layout
        n == seedCount(L.text)
    IN  IF i >= n THEN w
        ELSE LET off  == Step((48 * i) \div n, radii[i + 1])
                 ref  == Len(w.heap) + 1
             IN  Let([ id         |-> NodeId(Len(L.nodes)),
                       char       |-> L.text[1],
                       position   |->
                           MkPos((L.canvasWidth * Scale) \div 2 + off.dx,
                                 (L.canvasHeight * Scale) \div 2 + off.dy),
                       energy     |-> L.params.initialEnergy,
                       generation |-> 0,
                       textIndex  |-> i * (Len(L.text) \div n),
                       parent     |-> NoParent,
                       children   |-> << >> ],
                     LAMBDA seed :
                 Let([w EXCEPT !.heap = Append(@, seed),
                               !.layout.nodes = Append(@, ref),
                               !.spatialIndex = insert(@, NodeView(seed, ref)).si,
                               !.layout.growthQueue = Append(@, ref)],
                     LAMBDA w1 : initializeFrom(w1, i + 1, radii)))

\* initialize()
initialize(w, radii) == Let(w, LAMBDA w0 : initializeFrom(w0, 0, radii))

\* Math.max over the collocation strengths from node.char to the nearby
\* nodes (0 without nearby nodes)
getMaxCollocationStrength(sf, node, nearbyNodes) ==
    LET s == {getCollocationStrength(sf, node.char, nearbyNodes[i].char) :
                 i \in 1..Len(nearbyNodes)} \cup {0}
    IN  CHOOSE m \in s : \A v \in s : v <= m

\* calculateSemanticCurvature(node, nearbyNodes)
calculateSemanticCurvature(sf, params, node, nearbyNodes) ==
    LET baseCurvature == ((params.initialEnergy - node.energy) * Unit)
                             \div params.initialEnergy
        complexityFactor ==
            Min(Unit, (getSemanticComplexity(sf, node.char) * Unit) \div 10)
    IN  baseCurvature
        + (3 * getMaxCollocationStrength(sf, node, nearbyNodes)) \div 10
        + (2 * complexityFactor) \div 10

\* calculateEnergyDecay(node, nearbyNodes)
calculateEnergyDecay(sf, params, node, nearbyNodes) ==
    LET loadPenalty == calculateCognitiveLoad(sf, node) \div 10
        collocationBonus ==
            SumSeq([i \in 1..Len(nearbyNodes) |->
                       (5 * getCollocationStrength(sf, node.char,
                                                   nearbyNodes[i].char)) \div 100],
                   Len(nearbyNodes))
    IN  Max(Unit \div 10, params.energyDecay + loadPenalty - collocationBonus)

\* energy of a semantic branch: parentNode.energy * 1.2 instead of * 0.8
branchEnergyGain(parentEnergy) == (parentEnergy * 12) \div 10

\* energy of a semantic branch: parentNode.energy * 0.8
branchEnergy(parentEnergy) == (parentEnergy * 8) \div 10

\* checkIntersection(node, nearbyNodes): some nearby node closer than 15
checkIntersection(position, nearbyNodes) ==
    \E i \in 1..Len(nearbyNodes) :
        DistLess(position.x - nearbyNodes[i].position.x,
                 position.y - nearbyNodes[i].position.y, 15 * Scale)

\* checkSemanticIntersection(node, nearbyNodes) without the semantic rule
checkPhysicalOnly(sf, node, nearbyNodes) ==
    checkIntersection(node.position, nearbyNodes)

\* checkSemanticIntersection(node, nearbyNodes)
checkSemanticIntersection(sf, node, nearbyNodes) ==
    \/ checkIntersection(node.position, nearbyNodes)
    \/ \E i \in 1..Len(nearbyNodes) :
          /\ 10 * getSemanticDistance(sf, node.char, nearbyNodes[i].char) < 3 * Unit
          /\ DistLess(node.position.x - nearbyNodes[i].position.x,
                      node.position.y - nearbyNodes[i].position.y, 25 * Scale)

\* determineConnectionType(fromNode, toNode): visual and semantic type
determineConnectionType(sf, params, fromNode, toNode) ==
    LET semanticDistance == getSemanticDistance(sf, fromNode.char, toNode.char)
        collocationStrength ==
            getCollocationStrength(sf, fromNode.char, toNode.char)
    IN  [ visual   |->
              IF fromNode.energy > params.coilingThreshold THEN "primary"
              ELSE IF 2 * fromNode.energy > params.coilingThreshold
              THEN "secondary"
              ELSE "tertiary",
          semantic |->
              IF 10 * collocationStrength > 7 * Unit THEN "collocation"
              ELSE IF 10 * semanticDistance < 4 * Unit THEN "similarity"
              ELSE IF 10 * semanticDistance > 8 * Unit THEN "contrast"
              ELSE "neutral" ]

\* a push that files the node at the text position of its parent
PushSameIndex(w, parentRef, newNode, conn) ==
    LET ref == Len(w.heap) + 1
        same == [newNode EXCEPT !.textIndex = w.heap[parentRef].textIndex]
    IN
    [w EXCEPT
        !.heap = Append([@ EXCEPT ![parentRef].children = Append(@, newNode.id)],
                        same),
        !.layout.nodes = Append(@, ref),
        !.spatialIndex = insert(@, NodeView(same, ref)).si,
        !.layout.connections =
            Append(@, [ from         |-> w.heap[parentRef].id,
                        to           |-> newNode.id,
                        type         |-> conn.type,
                        semanticType |-> conn.semanticType,
                        curvature    |-> conn.curvature,
                        fromRef      |-> parentRef,
                        toRef        |-> ref ])]

\* a push that files the node and records no connection for it
PushUnconnected(w, parentRef, newNode, conn) ==
    LET ref == Len(w.heap) + 1 IN
    [w EXCEPT
        !.heap = Append([@ EXCEPT ![parentRef].children = Append(@, newNode.id)],
                        newNode),
        !.layout.nodes = Append(@, ref),
        !.spatialIndex = insert(@, NodeView(newNode, ref)).si]

\* nodes.push, spatialIndex.insert, parent.children.push and
\* connections.push for a node that passed its intersection check.  The
\* references fromRef and toRef of a connection are bookkeeping of the
\* model: the objects its ids named when it was recorded.
PushNode(w, parentRef, newNode, conn) ==
    LET ref == Len(w.heap) + 1 IN
    [w EXCEPT
        !.heap = Append([@ EXCEPT ![parentRef].children = Append(@, newNode.id)],
                        newNode),
        !.layout.nodes = Append(@, ref),
        !.spatialIndex = insert(@, NodeView(newNode, ref)).si,
        !.layout.connections =
            Append(@, [ from         |-> w.heap[parentRef].id,
                        to           |-> newNode.id,
                        type         |-> conn.type,
                        semanticType |-> conn.semanticType,
                        curvature    |-> conn.curvature,
                        fromRef      |-> parentRef,
                        toRef        |-> ref ])]

\* calculateSemanticInterest(node, direction, nearbyNodes) for the
\* direction k * 15 degrees
calculateSemanticInterest(sf, node, k, nearbyNodes) ==
    LET wave == RoundDiv(3 * Sin48(6 * k) * Unit, 10 * 1000)
        \* a nearby node adds its similarity * 0.4 when it lies within 45.6
        \* degrees of the direction (dirSimilarity > 0.7); the node itself,
        \* at distance 0, has the direction (0, 0) and never does
        Pull(nearby) ==
            LET similarity == Unit - getSemanticDistance(sf, node.char, nearby.char)
                dx  == nearby.position.x - node.position.x
                dy  == nearby.position.y - node.position.y
                mag == getDistance(node.position, nearby.position)
            IN  IF similarity = 0 THEN 0
                ELSE IF /\ mag > 0
                        /\ 10 * (Cos48(2 * k) * dx + Sin48(2 * k) * dy)
                               > 7 * 1000 * mag
                THEN (4 * similarity) \div 10
                ELSE 0
    IN  Max(0, wave + SumSeq([i \in 1..Len(nearbyNodes) |-> Pull(nearbyNodes[i])],
                             Len(nearbyNodes)))

\* createSemanticBranch(parentNode, nearbyNodes): the world after it and
\* the reference of the branch node (0 for null)
createSemanticBranch(w, parentRef, nearbyNodes) ==
    LET L          == w.layout
        parentNode == w.heap[parentRef]
    IN  Let([k \in 0..23 |->
                calculateSemanticInterest(L.semanticField, parentNode,
                                          k, nearbyNodes)],
            LAMBDA interest :
        Let(CHOOSE m \in {interest[k] : k \in 0..23} :
                \A k \in 0..23 : interest[k] <= m,
            LAMBDA maxInterest :
        LET best == CHOOSE k \in 0..23 :
                        /\ interest[k] = maxInterest
                        /\ \A k2 \in 0..(k - 1) : interest[k2] < maxInterest
            off  == Step(2 * best, L.params.characterSpacing)
        IN
        Let([ id         |-> NodeId(Len(L.nodes)),
              char       |-> L.text[parentNode.textIndex + 2],
              position   |-> MkPos(parentNode.position.x + off.dx,
                                   parentNode.position.y + off.dy),
              energy     |-> branchEnergy(parentNode.energy),
              generation |-> parentNode.generation + 1,
              textIndex  |-> parentNode.textIndex + 1,
              parent     |-> parentNode.id,
              children   |-> << >> ],
            LAMBDA branchNode :
        IF maxInterest <= 0 THEN [w |-> w, node |-> 0]
        ELSE IF checkSemanticIntersection(L.semanticField, branchNode, nearbyNodes)
        THEN [w |-> w, node |-> 0]
        ELSE [ w    |-> PushNode(w, parentRef, branchNode,
                                 [ type         |-> "semantic_branch",
                                   semanticType |-> "exploration",
                                   curvature    |-> (3 * Unit) \div 10 ]),
               node |-> Len(w.heap) + 1 ])))

RECURSIVE ProdSeq(_, _)
\* the product of the factors f[1..n], each in 1/Unit
ProdSeq(f, n) == IF n = 0 THEN Unit ELSE (f[n] * ProdSeq(f, n - 1)) \div Unit

\* calculateSemanticFreedom(position, char, nearbyNodes)
calculateSemanticFreedom(sf, position, char, nearbyNodes) ==
    LET n == Len(nearbyNodes)
        spatialFreedom ==
            ProdSeq([i \in 1..n |->
                        Min(Unit, (getDistance(position, nearbyNodes[i].position)
                                       * Unit) \div (30 * Scale))], n)
        semanticFreedom ==
            ProdSeq([i \in 1..n |->
                        Min(Unit, getSemanticDistance(sf, char,
                                                      nearbyNodes[i].char))], n)
    IN  (spatialFreedom + semanticFreedom) \div 2

\* createSemanticAvoidanceBranch(parentNode, nearbyNodes): a branch is
\* tried when one of the 16 directions (22.5 degrees apart) has freedom
\* above 0.3
createSemanticAvoidanceBranch(w, parentRef, nearbyNodes) ==
    LET L          == w.layout
        parentNode == w.heap[parentRef]
        Freedom(m) ==
            LET off == Step(3 * m, L.params.characterSpacing)
            IN  calculateSemanticFreedom(
                    L.semanticField,
                    MkPos(parentNode.position.x + off.dx,
                          parentNode.position.y + off.dy),
                    parentNode.char, nearbyNodes)
    IN  IF \E m \in 0..15 : 10 * Freedom(m) > 3 * Unit
        THEN createSemanticBranch(w, parentRef, nearbyNodes)
        ELSE [w |-> w, node |-> 0]

\* a branch that is created but not put into newQueue
DropBranch(r) == r.w

\* newQueue.push(node) when a branch was created
PushBranch(r) ==
    Let(r, LAMBDA b :
        IF b.node = 0 THEN b.w ELSE [b.w EXCEPT !.newQueue = Append(@, b.node)])

\* recordReadingTrajectory() without the cut of the list
recordUncut(w, fromNode, toNode) ==
    [w EXCEPT !.layout.readingTrajectory =
        Append(@, [from |-> fromNode.id, to |-> toNode.id])]

\* recordReadingTrajectory(fromNode, toNode, direction): the list is cut
\* to its last 800 points when it exceeds 1000 (TrajectoryKeep and
\* TrajectoryLimit here)
recordReadingTrajectory(w, fromNode, toNode) ==
    LET t == Append(w.layout.readingTrajectory,
                    [from |-> fromNode.id, to |-> toNode.id])
    IN  [w EXCEPT !.layout.readingTrajectory =
            IF Len(t) > TrajectoryLimit
            THEN SubSeq(t, Len(t) - TrajectoryKeep + 1, Len(t))
            ELSE t]

\* the body of the loop of grow() for one node of the frontier; heading is
\* the direction of primary growth, branch the outcome of the draw
\* Math.random() < branchProbability (the probability lies in [0.15, 0.8],
\* so both outcomes exist).  A node that is not skipped leaves a record in
\* steps, which is bookkeeping of the model: the candidate, the neighbours
\* queried, the calls of createSemanticAvoidanceBranch, and what the
\* iteration pushed to nodes, newQueue and connections.
growNode(w, ref, heading, branch) ==
    LET L    == w.layout
        node == w.heap[ref]
        off  == Step(heading, L.params.characterSpacing)
    IN  IF node.energy <= 0 \/ node.textIndex >= Len(L.text) - 1 THEN w
        ELSE
        Let(query(w.spatialIndex, node.position, 50 * Scale), LAMBDA q :
        Let(simulateReadingBody(L.semanticField, node), LAMBDA sf :
        Let([w EXCEPT !.spatialIndex = q.si, !.layout.semanticField = sf],
            LAMBDA w1 :
        Let(calculateSemanticCurvature(sf, L.params, node, q.ret),
            LAMBDA curvature :
        Let([ id         |-> NodeId(Len(L.nodes)),
              char       |-> L.text[node.textIndex + 2],
              position   |-> MkPos(node.position.x + off.dx,
                                   node.position.y + off.dy),
              energy     |-> node.energy
                             - calculateEnergyDecay(sf, L.params, node, q.ret),
              generation |-> node.generation + 1,
              textIndex  |-> node.textIndex + 1,
              parent     |-> node.id,
              children   |-> << >> ],
            LAMBDA newNode :
        LET nearbyNodes == q.ret
            ct == determineConnectionType(sf, L.params, node, newNode)
        IN
        Let(IF ~checkSemanticIntersection(sf, newNode, nearbyNodes)
            THEN Let(PushNode(w1, ref, newNode,
                              [ type         |-> ct.visual,
                                semanticType |-> ct.semantic,
                                curvature    |-> curvature ]),
                     LAMBDA a :
                 Let([a EXCEPT !.newQueue = Append(@, Len(w1.heap) + 1)],
                     LAMBDA b :
                 IF branch /\ node.energy > 50 * Unit
                 THEN PushBranch(createSemanticBranch(b, ref, nearbyNodes))
                 ELSE b))
            ELSE PushBranch(createSemanticAvoidanceBranch(w1, ref, nearbyNodes)),
            LAMBDA w2 :
        Let(recordReadingTrajectory(w2, node, newNode), LAMBDA w3 :
            [w3 EXCEPT !.steps =
                Append(@, [ parent      |-> ref,
                            candidate   |-> newNode,
                            nearbyNodes |-> nearbyNodes,
                            avoidance   |->
                                IF checkSemanticIntersection(sf, newNode,
                                                             nearbyNodes)
                                THEN 1 ELSE 0,
                            pushed      |-> SubSeq(w3.layout.nodes,
                                                   Len(L.nodes) + 1,
                                                   Len(w3.layout.nodes)),
                            queued      |-> SubSeq(w3.newQueue,
                                                   Len(w.newQueue) + 1,
                                                   Len(w3.newQueue)),
                            recorded    |-> SubSeq(w3.layout.connections,
                                                   Len(L.connections) + 1,
                                                   Len(w3.layout.connections)),
                            trajectory  |-> <<L.readingTrajectory,
                                              w3.layout.readingTrajectory>>
                          ])])))))))

RECURSIVE growFrom(_, _, _, _, _)
\* the loop of grow() over the frontier it started with
growFrom(w, queue, i, heading, branches) ==
    IF i > Len(queue) THEN w
    ELSE Let(growNode(w, queue[i], heading, i \in branches),
             LAMBDA w1 : growFrom(w1, queue, i + 1, heading, branches))

\* a * b / 100 without the clamp
AdaptUnclamped(a, percent) == (a * percent) \div 100

\* a * b / 100 clamped to [0.1, 1]
Adapt(a, percent) == Max(Unit \div 10, Min(Unit, (a * percent) \div 100))

\* adaptSystemParameters(reflection), called by performSelfReflection():
\* semanticDensity = connections with a semantic type other than neutral
\* per node, visualComplexity = mean curvature of the connections,
\* cognitiveLoad = mean load of the reading history
adaptSystemParameters(L) ==
    LET semantic == Cardinality({i \in 1..Len(L.connections) :
                                    L.connections[i].semanticType # "neutral"})
        nNodes   == Len(L.nodes)
        nConn    == Len(L.connections)
        curv     == SumSeq([i \in 1..nConn |-> L.connections[i].curvature], nConn)
        load     == calculateAverageCognitiveLoad(L.semanticField)
        p        == L.params
    IN  [L EXCEPT !.params =
            [p EXCEPT
                !.semanticGravity =
                    Adapt(@, IF nNodes > 0 /\ 10 * semantic > 8 * nNodes THEN 95
                             ELSE IF nNodes = 0 \/ 10 * semantic < 3 * nNodes
                             THEN 105 ELSE 100),
                !.interferenceAmplitude =
                    Adapt(@, IF nConn > 0 /\ 10 * curv > 7 * Unit * nConn THEN 90
                             ELSE IF nConn = 0 \/ 10 * curv < 3 * Unit * nConn
                             THEN 110 ELSE 100),
                !.energyDecay =
                    Adapt(@, IF 10 * load > 8 * Unit THEN 110
                             ELSE IF 10 * load < 3 * Unit THEN 90 ELSE 100)]]

\* the overlap test answering FALSE for every pair
neverOverlap(arr1, arr2) == FALSE

\* arraysOverlap(arr1, arr2, threshold) for the threshold 0.7:
\* intersection.length / union.length >= 0.7
arraysOverlap(arr1, arr2) ==
    LET InArr2(x) == x \in Range(arr2)
        intersection == SelectSeq(arr1, InArr2)
        union == Range(arr1) \cup Range(arr2)
    IN  10 * Len(intersection) >= 7 * Cardinality(union)

\* pattern.elements.map(e => e.id)
ElementIds(objects, elements) ==
    [i \in 1..Len(elements) |-> objects[elements[i]].id]

\* hasExistingPattern('cluster', newPattern)
hasExistingPattern(patterns, objects, newPattern) ==
    \E i \in 1..Len(patterns) :
        /\ patterns[i].type = "semantic_cluster"
        /\ arraysOverlap(ElementIds(objects, patterns[i].elements),
                         ElementIds(objects, newPattern))

RECURSIVE pushClusters(_, _, _, _, _)
\* patterns.clusters.forEach(...), from cluster i on
pushClusters(patterns, objects, clusters, i, generation) ==
    IF i > Len(clusters) THEN patterns
    ELSE pushClusters(
             IF ~hasExistingPattern(patterns, objects, clusters[i])
             THEN Append(patterns, [ type       |-> "semantic_cluster",
                                     elements   |-> clusters[i],
                                     generation |-> generation ])
             ELSE patterns,
             objects, clusters, i + 1, generation)

\* updateEmergentPatterns(): new clusters, then the bridges
\* (hasExistingPattern('bridge', ...) is false for every bridge), then the
\* spirals
updateEmergentPatterns(w) ==
    LET L  == w.layout
        sf == L.semanticField
    IN  IF Len(L.nodes) < MinPatternNodes THEN w
        ELSE
        Let(pushClusters(L.emergentPatterns, w.heap,
                         identifySemanticClusters(sf, w.heap, L.nodes), 1,
                         L.generation),
            LAMBDA withClusters :
        Let(identifySemanticBridges(sf, L.connections), LAMBDA bridges :
        Let(identifyReadingSpirals(sf), LAMBDA spirals :
            [w EXCEPT !.layout.emergentPatterns =
                withClusters
                \o [i \in 1..Len(bridges) |->
                       [ type       |-> "semantic_bridge",
                         connection |-> bridges[i],
                         generation |-> L.generation ]]
                \o [i \in 1..Len(spirals) |->
                       [ type       |-> "reading_spiral",
                         trajectory |-> spirals[i],
                         generation |-> L.generation ]]])))

\* a tick that leaves the frontier as it was instead of replacing it by
\* the nodes it created
growKeepFrontier(w, heading, branches) ==
    LET L == w.layout IN
    IF ~L.isGrowing \/ L.growthQueue = << >> THEN w
    ELSE Let([w EXCEPT !.newQueue = << >>, !.steps = << >>], LAMBDA w0 :
         Let(growFrom(w0, L.growthQueue, 1, heading, branches), LAMBDA w1 :
             [w1 EXCEPT !.layout.generation = @ + 1, !.newQueue = << >>]))

\* a tick that counts the generation up by two
growCountTwice(w, heading, branches) ==
    LET L == w.layout IN
    IF ~L.isGrowing \/ L.growthQueue = << >> THEN w
    ELSE Let([w EXCEPT !.newQueue = << >>, !.steps = << >>], LAMBDA w0 :
         Let(growFrom(w0, L.growthQueue, 1, heading, branches), LAMBDA wg :
         Let(updateEmergentPatterns(wg), LAMBDA w1 :
         LET L2 == IF L.generation % 10 = 0
                   THEN adaptSystemParameters(w1.layout)
                   ELSE w1.layout
         IN  [w1 EXCEPT !.layout = [L2 EXCEPT !.growthQueue = w1.newQueue,
                                              !.generation = @ + 2],
                        !.newQueue = << >>])))

\* a tick that runs whether or not the engine is growing
growWhilePaused(w, heading, branches) ==
    LET L == w.layout IN
    IF L.growthQueue = << >> THEN w
    ELSE Let([w EXCEPT !.newQueue = << >>, !.steps = << >>], LAMBDA w0 :
         Let(growFrom(w0, L.growthQueue, 1, heading, branches), LAMBDA wg :
         Let(updateEmergentPatterns(wg), LAMBDA w1 :
         LET L2 == IF L.generation % 10 = 0
                   THEN adaptSystemParameters(w1.layout)
                   ELSE w1.layout
         IN  [w1 EXCEPT !.layout = [L2 EXCEPT !.growthQueue = w1.newQueue,
                                              !.generation = @ + 1],
                        !.newQueue = << >>])))

\* grow(): one tick.  heading and branches are the random draws of the
\* tick: one heading of primary growth, and the positions of the frontier
\* whose nodes win the branching draw.
grow(w, heading, branches) ==
    LET L == w.layout IN
    IF ~L.isGrowing \/ L.growthQueue = << >> THEN w
    ELSE Let([w EXCEPT !.newQueue = << >>, !.steps = << >>], LAMBDA w0 :
         Let(growFrom(w0, L.growthQueue, 1, heading, branches), LAMBDA wg :
         Let(updateEmergentPatterns(wg), LAMBDA w1 :
         LET L2 == IF L.generation % 10 = 0
                   THEN adaptSystemParameters(w1.layout)
                   ELSE w1.layout
         IN  [w1 EXCEPT !.layout = [L2 EXCEPT !.growthQueue = w1.newQueue,
                                              !.generation = @ + 1],
                        !.newQueue = << >>])))

RECURSIVE reinsertFrom(_, _, _, _)
\* layout.nodes.forEach(node => layout.spatialIndex.insert(node))
reinsertFrom(si, objects, nodes, i) ==
    IF i > Len(nodes) THEN si
    ELSE Let(insert(si, NodeView(objects[nodes[i]], nodes[i])).si,
             LAMBDA si1 : reinsertFrom(si1, objects, nodes, i + 1))

\* OrganicLayout.reset(): the lists are emptied, the field is a new
\* SemanticField (the text is not analysed again), params stay as they
\* are, and initialize() plants the seeds
reset(w, radii) ==
    initialize(
        [ layout |-> [w.layout EXCEPT
                         !.nodes             = << >>,
                         !.connections       = << >>,
                         !.growthQueue       = << >>,
                         !.generation        = 0,
                         !.isGrowing         = FALSE,
                         !.readingTrajectory = << >>,
                         !.emergentPatterns  = << >>,
                         !.semanticField     = NewSemanticField],
          heap         |-> << >>,
          spatialIndex |-> clear(w.spatialIndex),
          newQueue     |-> << >>,
          steps        |-> << >> ],
        radii)

(***************************************************************************)
(* OrganicTypographySystem: the facade over a MetaCognitiveOrchestrator    *)
(*                                                                         *)
(* The orchestrator's constructor builds the OrganicLayout and calls       *)
(* initialize(); start() and pause() set isGrowing; update() is one call   *)
(* of organicLayout.grow() followed by the orchestrator's narrative steps  *)
(* (temporal context, metacognition, integration), which are taken to      *)
(* return normally.  Of the layout they write params.semanticGravity and   *)
(* params.interferenceAmplitude (applyIntegrationResults), which growth    *)
(* does not read: these writes are followed in SpecParams, not here.  The  *)
(* facade then runs performMemoryOptimization().  reset() is                *)
(* organicLayout.reset() followed by the orchestrator's own initialize(),  *)
(* which calls organicLayout.initialize() once more.                       *)
(***************************************************************************)
\* how many reset() calls a behaviour of the model contains
MaxResets == 1

\* the world made of the current values of the variables
World ==
    [layout |-> layout, heap |-> heap, spatialIndex |-> spatialIndex,
     newQueue |-> << >>, steps |-> << >>]

\* performMemoryOptimization(): the oldest nodes beyond the cap leave the
\* node list, the connections naming a removed id are dropped and the
\* index is rebuilt from the remaining list; the trajectory keeps its last
\* maxTrajectory points
performMemoryOptimization(w) ==
    LET L  == w.layout
        n  == Len(L.nodes)
    IN  Let(IF n > MaxNodes
            THEN LET removeCount == n - MaxNodes
                     removedIds  == {w.heap[L.nodes[i]].id : i \in 1..removeCount}
                     kept        == SubSeq(L.nodes, removeCount + 1, n)
                     Keep(conn)  == /\ conn.from \notin removedIds
                                    /\ conn.to \notin removedIds
                 IN  [w EXCEPT
                         !.layout.nodes = kept,
                         !.layout.connections = SelectSeq(@, Keep),
                         !.spatialIndex =
                             Let(clear(@), LAMBDA si :
                                 reinsertFrom(si, w.heap, kept, 1))]
            ELSE w,
            LAMBDA w1 :
        LET t == w1.layout.readingTrajectory
        IN  [w1 EXCEPT !.layout.readingTrajectory =
                IF Len(t) > MaxTrajectory
                THEN SubSeq(t, Len(t) - MaxTrajectory + 1, Len(t))
                ELSE t])

\* the radii drawn by one call of initialize(): the seeds of one call get
\* the same radius, two calls may differ (seeds of two calls at the same
\* angle then lie 0 or 10 units apart)
Radii(text) == {[i \in 1..seedCount(text) |-> r] : r \in SeedRadii}

\* new OrganicTypographySystem().initialize(text): the orchestrator is
\* constructed and has planted the seeds
Init ==
    \E text \in Texts : \E radii \in Radii(text) :
        \E w \in {initialize(NewOrganicLayout(text, canvasWidth, canvasHeight),
                              radii)} :
            /\ layout = w.layout
            /\ heap = w.heap
            /\ spatialIndex = w.spatialIndex
            /\ lastCall = [op |-> "initialize"]
            /\ resetCount = 0

\* start()
SystemStart ==
    /\ layout' = [layout EXCEPT !.isGrowing = TRUE]
    /\ lastCall' = [op |-> "start"]
    /\ UNCHANGED <<heap, spatialIndex, resetCount>>

\* pause()
SystemPause ==
    /\ layout' = [layout EXCEPT !.isGrowing = FALSE]
    /\ lastCall' = [op |-> "pause"]
    /\ UNCHANGED <<heap, spatialIndex, resetCount>>

\* the positions of the frontier whose node passes the guards of the loop
\* of grow() and of the branching draw
CanBranch ==
    {i \in 1..Len(layout.growthQueue) :
        LET node == heap[layout.growthQueue[i]] IN
        /\ node.energy > 50 * Unit
        /\ node.textIndex < Len(layout.text) - 1}

\* the random draws of one tick (none is consulted when grow() returns at
\* once)
TickInputs ==
    IF layout.isGrowing /\ layout.growthQueue # << >>
    THEN Headings \X {b \in SUBSET CanBranch : Cardinality(b) <= MaxBranches}
    ELSE {<<0, {}>>}

\* update(): orchestrator.update(), then performMemoryOptimization().
\* lastCall keeps the frontier the tick started with, the node list and
\* the connections as the tick left them to the governor, and the steps of
\* the tick.
SystemUpdate ==
    \E draw \in TickInputs :
        \E w1 \in {grow(World, draw[1], draw[2])} :
            \E w2 \in {performMemoryOptimization(w1)} :
                /\ layout' = w2.layout
                /\ heap' = w2.heap
                /\ spatialIndex' = w2.spatialIndex
                /\ lastCall' = [ op          |-> "update",
                                 growing     |-> layout.isGrowing,
                                 frontier    |-> layout.growthQueue,
                                 grown       |-> w1.layout.nodes,
                                 connections |-> w1.layout.connections,
                                 steps       |-> w1.steps ]
                /\ UNCHANGED resetCount

\* reset()
SystemReset ==
    /\ resetCount < MaxResets
    /\ \E r1 \in Radii(layout.text) : \E r2 \in Radii(layout.text) :
          \E w \in {initialize(reset(World, r1), r2)} :
              /\ layout' = w.layout
              /\ heap' = w.heap
              /\ spatialIndex' = w.spatialIndex
    /\ lastCall' = [op |-> "reset"]
    /\ resetCount' = resetCount + 1

Next ==
    \/ SystemStart
    \/ SystemPause
    \/ SystemUpdate
    \/ SystemReset

Spec == Init /\ [][Next]_vars

(***************************************************************************)
(* Properties of the growth engine and the governor (checked under Spec)   *)
(***************************************************************************)
\* the node objects of the node list
ListedNodes == {heap[layout.nodes[i]] : i \in 1..Len(layout.nodes)}

\* the ids of the node list
ListedIds == {heap[layout.nodes[i]].id : i \in 1..Len(layout.nodes)}

\* the last call was an update() whose tick grew the frontier
Ticked ==
    /\ lastCall.op = "update"
    /\ lastCall.growing
    /\ lastCall.frontier # << >>

\* how many nodes the governor removed in the last update()
EvictedCount ==
    IF lastCall.op = "update" /\ Len(lastCall.grown) > MaxNodes
    THEN Len(lastCall.grown) - MaxNodes
    ELSE 0

\* the references and the ids of the nodes the governor removed in the
\* last update()
EvictedRefs == {lastCall.grown[i] : i \in 1..EvictedCount}

EvictedIds == {heap[r].id : r \in EvictedRefs}

\* C6: any two nodes of the node list are at distance >= 15, or their
\* semantic distance is >= 0.3, or they are at distance >= 25.
C6_IntersectionInvariant ==
    \A i \in 1..Len(layout.nodes) : \A j \in 1..Len(layout.nodes) :
        i # j =>
            LET a  == heap[layout.nodes[i]]
                b  == heap[layout.nodes[j]]
                dx == a.position.x - b.position.x
                dy == a.position.y - b.position.y
            IN  \/ ~DistLess(dx, dy, 15 * Scale)
                \/ 10 * getSemanticDistance(layout.semanticField, a.char, b.char)
                       >= 3 * Unit
                \/ ~DistLess(dx, dy, 25 * Scale)

\* the connections in the list, and those the last tick left to the
\* governor
RecordedConnections ==
    {layout.connections[i] : i \in 1..Len(layout.connections)}
        \cup (IF lastCall.op = "update"
              THEN {lastCall.connections[i] : i \in 1..Len(lastCall.connections)}
              ELSE {})

\* C7: for every connection recorded, by primary growth, by a secondary
\* semantic branch or by an avoidance branch, the child's energy is at most
\* the parent's and the child's generation is the parent's plus one.
C7_EnergyAndGeneration ==
    \A conn \in RecordedConnections :
        /\ heap[conn.toRef].energy <= heap[conn.fromRef].energy
        /\ heap[conn.toRef].generation = heap[conn.fromRef].generation + 1

\* a tick has recorded a primary connection, a secondary branch next to a
\* primary child of the same parent, and an avoidance branch (a branch
\* whose parent got no primary child)
C7_Witness ==
    /\ Ticked
    /\ \E p \in RecordedConnections : \E s \in RecordedConnections :
          /\ p.type = "primary"
          /\ s.type = "semantic_branch"
          /\ s.fromRef = p.fromRef
    /\ \E v \in RecordedConnections :
          /\ v.type = "semantic_branch"
          /\ \A p \in RecordedConnections :
                p.fromRef = v.fromRef => p.type = "semantic_branch"

\* C8: after update() the node list holds at most the cap, it is the
\* newest part of the list the tick left, and both ids of every connection
\* belong to nodes of the list.
C8_CapAndEndpoints ==
    lastCall.op = "update" =>
        /\ Len(layout.nodes) <= MaxNodes
        /\ layout.nodes = SubSeq(lastCall.grown, EvictedCount + 1,
                                 Len(lastCall.grown))
        /\ \A i \in 1..Len(layout.connections) :
              /\ layout.connections[i].from \in ListedIds
              /\ layout.connections[i].to \in ListedIds

\* C9: after an eviction no node of the list has an evicted id as parent
\* or among its children, no evicted node is in the frontier, and the
\* index holds exactly the nodes of the list.
C9_NoDanglingReference ==
    EvictedCount > 0 =>
        /\ \A n \in ListedNodes :
              /\ n.parent \notin EvictedIds
              /\ \A k \in 1..Len(n.children) : n.children[k] \notin EvictedIds
        /\ \A k \in 1..Len(layout.growthQueue) :
              layout.growthQueue[k] \notin EvictedRefs
        /\ {it.ref : it \in IndexedItems(spatialIndex)}
              \subseteq Range(layout.nodes)

\* C10: the ids of the node list are pairwise different, in every state
\* and in the list as every tick left it.
C10_UniqueIds ==
    /\ \A i \in 1..Len(layout.nodes) : \A j \in 1..Len(layout.nodes) :
          heap[layout.nodes[i]].id = heap[layout.nodes[j]].id => i = j
    /\ lastCall.op = "update" =>
          \A i \in 1..Len(lastCall.grown) : \A j \in 1..Len(lastCall.grown) :
              heap[lastCall.grown[i]].id = heap[lastCall.grown[j]].id => i = j

\* the references held by the spatial index
IndexedRefs == {it.ref : it \in IndexedItems(spatialIndex)}

\* C11: after reset() the engine holds exactly the seeds that initialize()
\* produces for the text (as many as after construction), every seed is in
\* the frontier and in the spatial index, generation is 0, and connections
\* and trajectory are empty.
C11_ResetIdempotent ==
    lastCall.op = "reset" =>
        /\ Len(layout.nodes) = seedCount(layout.text)
        /\ layout.growthQueue = layout.nodes
        /\ IndexedRefs = Range(layout.nodes)
        /\ layout.generation = 0
        /\ layout.connections = << >>
        /\ layout.readingTrajectory = << >>

\* the steps of the last tick
Steps ==
    IF lastCall.op = "update"
    THEN {lastCall.steps[i] : i \in 1..Len(lastCall.steps)}
    ELSE {}

\* a queried neighbour lies closer than 15 to the candidate of the step
TooClose(s) ==
    \E i \in 1..Len(s.nearbyNodes) :
        LET dx == s.candidate.position.x - s.nearbyNodes[i].position.x
            dy == s.candidate.position.y - s.nearbyNodes[i].position.y
        IN  Abs(dx) < 15 * Scale /\ Abs(dy) < 15 * Scale
            /\ dx * dx + dy * dy < (15 * Scale) * (15 * Scale)

\* a queried neighbour with semantic distance < 0.3 lies closer than 25
TooAlike(s) ==
    \E i \in 1..Len(s.nearbyNodes) :
        LET dx == s.candidate.position.x - s.nearbyNodes[i].position.x
            dy == s.candidate.position.y - s.nearbyNodes[i].position.y
        IN  /\ 10 * getSemanticDistance(layout.semanticField, s.candidate.char,
                                        s.nearbyNodes[i].char) < 3 * Unit
            /\ Abs(dx) < 25 * Scale /\ Abs(dy) < 25 * Scale
            /\ dx * dx + dy * dy < (25 * Scale) * (25 * Scale)

\* C12: a primary candidate with a queried neighbour closer than 15, or
\* with a neighbour of semantic distance < 0.3 closer than 25, is rejected:
\* the candidate is not pushed to the node list or the frontier, the only
\* connection the iteration may record is that of a branch, and the
\* iteration makes exactly one avoidance-branch attempt.
C12_BlockedCandidateRejected ==
    \A s \in Steps :
        (TooClose(s) \/ TooAlike(s)) =>
            /\ \A i \in 1..Len(s.pushed) : heap[s.pushed[i]] # s.candidate
            /\ \A i \in 1..Len(s.queued) : heap[s.queued[i]] # s.candidate
            /\ \A i \in 1..Len(s.recorded) :
                  s.recorded[i].type = "semantic_branch"
            /\ Len(s.pushed) <= 1
            /\ Len(s.recorded) = Len(s.pushed)
            /\ s.queued = s.pushed
            /\ s.avoidance = 1

\* a tick rejected a candidate for the semantic rule alone, and a tick
\* rejected a candidate and its avoidance attempt produced a branch
C12_Witness ==
    /\ \E s \in Steps : TooAlike(s) /\ ~TooClose(s)
    /\ \E s \in Steps : (TooClose(s) \/ TooAlike(s)) /\ Len(s.pushed) = 1

\* the steps of the last tick whose parent is a seed
SeedSteps == {s \in Steps : heap[s.parent].generation = 0}

\* the seeds of the frontier of the last tick with textIndex + 1 <
\* text.length all have a step
SeedsProcessed ==
    Ticked =>
        \A i \in 1..Len(lastCall.frontier) :
            LET seed == heap[lastCall.frontier[i]] IN
            (seed.generation = 0 /\ seed.textIndex + 1 < Len(layout.text)) =>
                \E s \in SeedSteps : s.parent = lastCall.frontier[i]

\* the first tick after initialize() and start() on a text of 2 characters
FirstTickOfTwo ==
    /\ Ticked
    /\ Len(layout.text) = 2
    /\ layout.generation = 1
    /\ resetCount = 0

SquaredDistance(item, position) ==
    (item.position.x - position.x) * (item.position.x - position.x)
        + (item.position.y - position.y) * (item.position.y - position.y)

RECURSIVE nearestFrom(_, _, _, _, _)
\* the loop of findNearest() from candidate i on: nearest is replaced when
\* distance < minDistance, where minDistance is maxDistance until a
\* candidate was taken and the distance of nearest afterwards
nearestFrom(candidates, i, position, maxDistance, nearest) ==
    IF i > Len(candidates) THEN nearest
    ELSE LET item   == candidates[i]
             closer ==
                 IF nearest = Null
                 THEN DistLess(item.position.x - position.x,
                               item.position.y - position.y, maxDistance)
                 ELSE SquaredDistance(item, position)
                          < SquaredDistance(nearest, position)
         IN  nearestFrom(candidates, i + 1, position, maxDistance,
                         IF closer THEN item ELSE nearest)

\* findNearest(position, maxDistance): one query of radius
\* min(maxDistance, max(cellSize, 50)), then the closest of its results
findNearest(si, position, maxDistance) ==
    LET radius == Min(maxDistance, Max(si.cellSize, 50 * Scale))
        q      == query(si, position, radius)
    IN  [ si  |-> q.si,
          ret |-> nearestFrom(q.ret, 1, position, maxDistance, Null) ]

\* maxDistance = Infinity: further than any two positions of the model
NoLimit == 400 * Scale

NearestXs == {0, 40 * Scale, 70 * Scale, 130 * Scale}

NearestItems == {MkItem(id, x, 0) : id \in IndexIds, x \in NearestXs}

NearestPositions == {MkPos(0, 0), MkPos(70 * Scale, 0)}

NearestLimits == {50 * Scale, 100 * Scale, NoLimit}

InitNearest ==
    /\ spatialIndex = NewSpatialIndex(200 * Scale, 60 * Scale, 60 * Scale)
    /\ lastCall = NoCall
    /\ layout = NoLayout
    /\ heap = << >>
    /\ resetCount = 0

NearestInsert ==
    \E item \in NearestItems :
        LET r == insert(spatialIndex, item) IN
        /\ spatialIndex' = r.si
        /\ lastCall' = [op |-> "insert", item |-> item, ret |-> r.ret]
        /\ UNCHANGED <<layout, heap, resetCount>>

NearestRemove ==
    \E id \in IndexIds :
        LET r == remove(spatialIndex, id) IN
        /\ spatialIndex' = r.si
        /\ lastCall' = [op |-> "remove", id |-> id, ret |-> r.ret]
        /\ UNCHANGED <<layout, heap, resetCount>>

NearestFind ==
    \E position \in NearestPositions : \E maxDistance \in NearestLimits :
        LET r == findNearest(spatialIndex, position, maxDistance) IN
        /\ spatialIndex' = r.si
        /\ lastCall' = [op |-> "findNearest", position |-> position,
                        maxDistance |-> maxDistance, ret |-> r.ret]
        /\ UNCHANGED <<layout, heap, resetCount>>

NextNearest ==
    \/ NearestInsert
    \/ NearestRemove
    \/ NearestFind

SpecNearest == InitNearest /\ [][NextNearest]_vars

\* the indexed items closer than maxDistance to the position of the last
\* findNearest()
WithinLimit ==
    {it \in IndexedItems(spatialIndex) :
        DistLess(it.position.x - lastCall.position.x,
                 it.position.y - lastCall.position.y, lastCall.maxDistance)}

\* C14: findNearest(position, maxDistance) returns none only when no
\* indexed item is closer than maxDistance, and otherwise an item that is
\* closer than maxDistance and at least as close as every other such item.
C14_FindNearestIsNearest ==
    lastCall.op = "findNearest" =>
        IF WithinLimit = {} THEN lastCall.ret = Null
        ELSE /\ lastCall.ret \in WithinLimit
             /\ \A it \in WithinLimit :
                   SquaredDistance(lastCall.ret, lastCall.position)
                       <= SquaredDistance(it, lastCall.position)

InitFallback ==
    \E text \in Texts :
        \E w \in {NewOrganicLayout(text, canvasWidth, canvasHeight)} :
            /\ layout = w.layout
            /\ heap = w.heap
            /\ spatialIndex = w.spatialIndex
            /\ lastCall = [op |-> "initialize"]
            /\ resetCount = 0

\* performMemoryOptimization() when this.orchestrator has no organicLayout
performMemoryOptimizationFallback(w) == w

\* start()
FallbackStart ==
    /\ layout' = [layout EXCEPT !.isGrowing = TRUE]
    /\ lastCall' = [op |-> "start"]
    /\ UNCHANGED <<heap, spatialIndex, resetCount>>

\* pause()
FallbackPause ==
    /\ layout' = [layout EXCEPT !.isGrowing = FALSE]
    /\ lastCall' = [op |-> "pause"]
    /\ UNCHANGED <<heap, spatialIndex, resetCount>>

\* update(): orchestrator.grow(), then performMemoryOptimization()
FallbackUpdate ==
    \E draw \in TickInputs :
        \E w1 \in {grow(World, draw[1], draw[2])} :
            \E w2 \in {performMemoryOptimizationFallback(w1)} :
                /\ layout' = w2.layout
                /\ heap' = w2.heap
                /\ spatialIndex' = w2.spatialIndex
                /\ lastCall' = [ op          |-> "update",
                                 growing     |-> layout.isGrowing,
                                 frontier    |-> layout.growthQueue,
                                 grown       |-> w1.layout.nodes,
                                 connections |-> w1.layout.connections,
                                 steps       |-> w1.steps ]
                /\ UNCHANGED resetCount

\* reset(): OrganicLayout.reset()
FallbackReset ==
    /\ resetCount < MaxResets
    /\ \E radii \in Radii(layout.text) :
          \E w \in {reset(World, radii)} :
              /\ layout' = w.layout
              /\ heap' = w.heap
              /\ spatialIndex' = w.spatialIndex
    /\ lastCall' = [op |-> "reset"]
    /\ resetCount' = resetCount + 1

NextFallback ==
    \/ FallbackStart
    \/ FallbackPause
    \/ FallbackUpdate
    \/ FallbackReset

SpecFallback == InitFallback /\ [][NextFallback]_vars

\* C16 (trajectory part): after every update() of the facade the reading
\* trajectory holds at most maxTrajectory entries.
C16_TrajectoryCapped ==
    lastCall.op = "update" => Len(layout.readingTrajectory) <= MaxTrajectory

\* the positions of the frontier of the last tick that grow() does not skip
Processed ==
    {i \in 1..Len(lastCall.frontier) :
        LET node == heap[lastCall.frontier[i]] IN
        ~(node.energy <= 0 \/ node.textIndex >= Len(layout.text) - 1)}

\* the last n elements of a sequence
Newest(seq, n) == SubSeq(seq, Len(seq) - n + 1, Len(seq))

\* C17: a tick records one trajectory entry for every frontier node it
\* does not skip, accepted or rejected: the entry from the node to its
\* candidate is appended to the list; the list never holds more than
\* TrajectoryLimit (1000) entries after a record, and an append that takes
\* it beyond the limit leaves its newest TrajectoryKeep (800) entries.
C17_OneEntryPerProcessedNode ==
    Ticked =>
        /\ Len(lastCall.steps) = Cardinality(Processed)
        /\ \A i \in 1..Len(lastCall.steps) :
              LET s      == lastCall.steps[i]
                  before == s.trajectory[1]
                  after  == s.trajectory[2]
                  all    == Append(before, [from |-> heap[s.parent].id,
                                            to   |-> s.candidate.id])
              IN  /\ Len(after) <= TrajectoryLimit
                  /\ after = IF Len(all) > TrajectoryLimit
                             THEN Newest(all, TrajectoryKeep)
                             ELSE all
                  /\ i > 1 => before = lastCall.steps[i - 1].trajectory[2]

\* a tick in which the record of a rejected candidate took the list beyond
\* its limit
C17_Witness ==
    /\ Ticked
    /\ \E s \in Steps :
          /\ s.avoidance = 1
          /\ Len(s.trajectory[1]) = TrajectoryLimit
          /\ Len(s.trajectory[2]) = TrajectoryKeep

(***************************************************************************)
(* SpecParams: update() of the orchestrator, seen from params              *)
(*                                                                         *)
(* params.semanticGravity, interferenceAmplitude and energyDecay are       *)
(* written by adaptSystemParameters(), at the end of grow() in every 10th  *)
(* generation, and by applyIntegrationResults(), at the end of every       *)
(* update() of the orchestrator.  Growth reads neither of the first two,   *)
(* and a pass reads of the layout only what it measures, so SpecParams     *)
(* runs the two writers in the order of update() over a layout whose       *)
(* lists are what a pass may find: nothing yet (density, complexity and    *)
(* load below 0.3), or a saturated layout (all three above 0.8).  Every    *)
(* tick made between start() and pause() is taken to find a frontier to    *)
(* grow, so that grow() reaches its end; while the layout is not growing   *)
(* grow() returns at once and update() goes on to the integration.         *)
(***************************************************************************)
\* how many generations a behaviour of SpecParams contains
MaxGeneration == 120

\* the lists of the layout as performSelfReflection() finds them
Observations ==
    { [ nodes |-> <<1>>, connections |-> << >>, readingHistory |-> << >> ],
      [ nodes       |-> <<1>>,
        connections |-> << [ semanticType |-> "strong_semantic",
                             curvature    |-> (9 * Unit) \div 10 ] >>,
        readingHistory |-> << [ cognitiveLoad |-> (9 * Unit) \div 10 ] >> ] }

\* calculateSynergy([visual, semantic, temporal]): the mean of three
\* non-negative measures
Synergies == {0, Unit}

\* calculateReflexivity()
reflexivity == (7 * Unit) \div 10

\* applyIntegrationResults(metaIntegration)
applyIntegrationResults(L, synergy) ==
    LET p == L.params
        g == (p.semanticGravity * (10 * Unit + synergy)) \div (10 * Unit)
        a == (p.interferenceAmplitude * (10 * Unit + reflexivity))
                 \div (10 * Unit)
    IN  [L EXCEPT !.params =
            [p EXCEPT !.semanticGravity       = Max(Unit \div 10, Min(Unit, g)),
                      !.interferenceAmplitude = Max(Unit \div 10, Min(Unit, a))]]

\* an end of grow() that reflects in every generation
reflectEveryTick(L, obs) ==
    [L EXCEPT !.params =
                  adaptSystemParameters(
                      [L EXCEPT !.nodes = obs.nodes,
                                !.connections = obs.connections,
                                !.semanticField.readingHistory =
                                    obs.readingHistory]).params,
              !.generation = @ + 1]

\* the end of grow(): performSelfReflection() in every 10th generation,
\* then generation++
reflectAndCount(L, obs) ==
    LET L1 == IF L.generation % 10 = 0
              THEN [L EXCEPT !.params =
                       adaptSystemParameters(
                           [L EXCEPT
                               !.nodes = obs.nodes,
                               !.connections = obs.connections,
                               !.semanticField.readingHistory =
                                   obs.readingHistory]).params]
              ELSE L
    IN  [L1 EXCEPT !.generation = @ + 1]

InitParams ==
    \E w \in {NewOrganicLayout(<<"a", "b">>, canvasWidth, canvasHeight)} :
        /\ layout = w.layout
        /\ heap = w.heap
        /\ spatialIndex = w.spatialIndex
        /\ lastCall = NoCall
        /\ resetCount = 0

\* start() of the orchestrator: organicLayout.start()
ParamsStart ==
    /\ layout' = [layout EXCEPT !.isGrowing = TRUE]
    /\ lastCall' = [op |-> "start", before |-> layout.params]
    /\ UNCHANGED <<heap, spatialIndex, resetCount>>

\* pause() of the orchestrator: organicLayout.pause()
ParamsPause ==
    /\ layout' = [layout EXCEPT !.isGrowing = FALSE]
    /\ lastCall' = [op |-> "pause", before |-> layout.params]
    /\ UNCHANGED <<heap, spatialIndex, resetCount>>

\* update() of the orchestrator: organicLayout.grow(), ...,
\* integrateSystemComponents()
ParamsUpdate ==
    /\ layout.generation < MaxGeneration
    /\ \E obs \in Observations : \E synergy \in Synergies :
          \E L1 \in {IF layout.isGrowing THEN reflectAndCount(layout, obs)
                      ELSE layout} :
              /\ layout' = applyIntegrationResults(L1, synergy)
              /\ lastCall' = [ op      |-> "update",
                               adapted |-> /\ layout.isGrowing
                                           /\ layout.generation % 10 = 0,
                               before  |-> layout.params,
                               grown   |-> L1.params ]
    /\ UNCHANGED <<heap, spatialIndex, resetCount>>

NextParams ==
    \/ ParamsStart
    \/ ParamsPause
    \/ ParamsUpdate

SpecParams == InitParams /\ [][NextParams]_vars

InRange(v) == Unit \div 10 <= v /\ v <= Unit

\* C18: semanticGravity, interferenceAmplitude and energyDecay lie in
\* [0.1, 1.0] after any number of ticks and self-adaptation passes.
C18_ParamsInRange ==
    /\ InRange(layout.params.semanticGravity)
    /\ InRange(layout.params.interferenceAmplitude)
    /\ InRange(layout.params.energyDecay)

\* a self-adaptation pass has just clamped energyDecay from below and
\* interferenceAmplitude from above
C18_Witness ==
    /\ lastCall.op = "update"
    /\ lastCall.adapted
    /\ (lastCall.before.energyDecay * 90) \div 100 < Unit \div 10
    /\ lastCall.grown.energyDecay = Unit \div 10
    /\ (lastCall.before.interferenceAmplitude * 110) \div 100 > Unit
    /\ lastCall.grown.interferenceAmplitude = Unit

(***************************************************************************)
(* SpecSpiral: identifyReadingSpirals() over a reading history             *)
(*                                                                         *)
(* Angles are counted in units of 7.5 degrees (24 = pi).  The eye          *)
(* positions of a history come either from five points spaced 45 degrees   *)
(* apart on a half-circle of radius 100 and its centre, or from five       *)
(* points of a straight line, so that every segment of a window has a      *)
(* direction of the table and Math.atan2 is exact.                         *)
(***************************************************************************)
\* the length of the reading history of SpecSpiral
MaxHistory == 5

\* the point of the half-circle of radius 100 about (400, 300) at k * 45
\* degrees
ArcPoint(k) ==
    MkPos(400 * Scale + RoundDiv(Cos48(6 * k) * 100 * Scale, 1000),
          300 * Scale + RoundDiv(Sin48(6 * k) * 100 * Scale, 1000))

ArcPoints == {ArcPoint(k) : k \in 0..4} \cup {MkPos(400 * Scale, 300 * Scale)}

LinePoints == {MkPos(x * Scale, 300 * Scale) : x \in {300, 350, 400, 450, 500}}

InitSpiral ==
    /\ layout = [text |-> << >>, semanticField |-> NewSemanticField]
    /\ heap = << >>
    /\ spatialIndex = NewSpatialIndex(canvasWidth * Scale,
                                      canvasHeight * Scale, 50 * Scale)
    /\ lastCall = NoCall
    /\ resetCount = 0

\* the eye positions of the reading history
EyePositions ==
    {layout.semanticField.readingHistory[i].eyePosition :
        i \in 1..Len(layout.semanticField.readingHistory)}

\* simulateReadingBody(currentNode, textNodes), as far as it is kept: one
\* more entry of the reading history, at the position of the node
SpiralRead ==
    /\ Len(layout.semanticField.readingHistory) < MaxHistory
    /\ \E family \in {ArcPoints, LinePoints} : \E p \in family :
          /\ EyePositions \subseteq family
          /\ layout' = [layout EXCEPT !.semanticField.readingHistory =
                           Append(@, [ node          |-> NoId,
                                       eyePosition   |-> p,
                                       cognitiveLoad |-> 0 ])]
    /\ lastCall' = [op |-> "simulateReadingBody"]
    /\ UNCHANGED <<heap, spatialIndex, resetCount>>

\* identifyReadingSpirals(nodes)
SpiralIdentify ==
    /\ lastCall' = [op  |-> "identifyReadingSpirals",
                    ret |-> identifyReadingSpirals(layout.semanticField)]
    /\ UNCHANGED <<layout, heap, spatialIndex, resetCount>>

NextSpiral ==
    \/ SpiralRead
    \/ SpiralIdentify

SpecSpiral == InitSpiral /\ [][NextSpiral]_vars

\* the eye positions of the history, in order
History ==
    [i \in 1..Len(layout.semanticField.readingHistory) |->
        layout.semanticField.readingHistory[i].eyePosition]

\* the five points of the half-circle, in order
HalfCircle == [k \in 1..5 |-> ArcPoint(k - 1)]

\* five points of the straight line, in order
StraightLine == [k \in 1..5 |-> MkPos((250 + 50 * k) * Scale, 300 * Scale)]

\* C19: a window of 5 points is reported as a spiral exactly when its
\* turning exceeds pi; the 5 points of a half-circle are reported, 5
\* points of a straight line are not.
C19_SpiralIffTurningExceedsPi ==
    (lastCall.op = "identifyReadingSpirals" /\ Len(History) = 5) =>
        /\ lastCall.ret # << >> <=> totalAngle(History, 2) > 24
        /\ History = HalfCircle => lastCall.ret # << >>
        /\ History = StraightLine => lastCall.ret = << >>

(***************************************************************************)
(* SpecSemantic: a SemanticField that analyses a text of one-letter words  *)
(* and answers getSemanticDistance()                                       *)
(***************************************************************************)
\* how many words the texts of SpecSemantic have
MaxWords == 3

Letters == {"a", "b", "c"}

RECURSIVE JoinWords(_, _)
\* the one-letter words ws[i..] separated by a space
JoinWords(ws, i) ==
    IF i > Len(ws) THEN << >>
    ELSE IF i = Len(ws) THEN <<ws[i]>>
    ELSE <<ws[i], " ">> \o JoinWords(ws, i + 1)

\* how many times a text of SpecSemantic repeats one word
MaxRepeats == 12

\* the texts of up to MaxWords words, and those that repeat one word up to
\* MaxRepeats times
SemanticTexts ==
    {JoinWords(ws, 1) : ws \in UNION {[1..n -> Letters] : n \in 1..MaxWords}}
    \cup {JoinWords([i \in 1..n |-> l], 1) : l \in Letters, n \in 1..MaxRepeats}

InitSemantic ==
    /\ layout = [text |-> << >>, semanticField |-> NewSemanticField]
    /\ heap = << >>
    /\ spatialIndex = NewSpatialIndex(canvasWidth * Scale,
                                      canvasHeight * Scale, 50 * Scale)
    /\ lastCall = NoCall
    /\ resetCount = 0

\* analyzeSemanticStructure(text), called once on the new field
SemanticAnalyze ==
    /\ layout.text = << >>
    /\ \E text \in SemanticTexts :
          layout' = [text |-> text,
                     semanticField |-> analyzeSemanticStructure(text)]
    /\ lastCall' = [op |-> "analyzeSemanticStructure"]
    /\ UNCHANGED <<heap, spatialIndex, resetCount>>

\* getSemanticDistance(word1, word2)
SemanticDistance ==
    /\ layout.text # << >>
    /\ \E word1 \in Letters : \E word2 \in Letters :
          lastCall' = [op    |-> "getSemanticDistance",
                       word1 |-> word1,
                       word2 |-> word2,
                       ret   |-> getSemanticDistance(layout.semanticField,
                                                     word1, word2)]
    /\ UNCHANGED <<layout, heap, spatialIndex, resetCount>>

NextSemantic ==
    \/ SemanticAnalyze
    \/ SemanticDistance

SpecSemantic == InitSemantic /\ [][NextSemantic]_vars

\* C20: after analyzeSemanticStructure the distance of two labels lies in
\* [0, 1], is 1 when the graph records no relation from the first to the
\* second, and is the same in both directions.
C20_DistanceSymmetric ==
    layout.text # << >> =>
        \A a \in Letters : \A b \in Letters :
            LET d == getSemanticDistance(layout.semanticField, a, b) IN
            /\ 0 <= d /\ d <= Unit
            /\ <<<<a>>, <<b>>>> \notin DOMAIN layout.semanticField.semanticGraph
                  => d = Unit
            /\ d = getSemanticDistance(layout.semanticField, b, a)

\* C21: after analyzeSemanticStructure the collocation strength of every
\* pair of labels lies in [0, 1], however often the bigram occurs.
C21_CollocationInRange ==
    layout.text # << >> =>
        \A a \in Letters : \A b \in Letters :
            LET c == getCollocationStrength(layout.semanticField, a, b) IN
            0 <= c /\ c <= Unit

\* the nodes that are known to be indexed when the k-th node of a step is
\* added: those the query of the iteration returned and the nodes the
\* iteration added before
IndexedBefore(s, k) ==
    s.nearbyNodes \o [i \in 1..(k - 1) |-> heap[s.pushed[i]]]

\* C22: every node a tick adds to the node list passes the intersection
\* test against the nodes that are indexed when it is added, a sibling
\* added earlier in the same iteration included.
C22_AddedNodePassesTest ==
    \A s \in Steps : \A k \in 1..Len(s.pushed) :
        ~checkSemanticIntersection(layout.semanticField, heap[s.pushed[k]],
                                   IndexedBefore(s, k))

(***************************************************************************)
(* The facade on a small canvas (checked under SpecSmallCanvas)            *)
(*                                                                         *)
(* initialize(text, canvasWidth, canvasHeight) takes the size of the       *)
(* canvas from its caller.  The seeds are planted 100 to 150 units from    *)
(* the centre whatever the size, so on a canvas of 100 x 100 they lie      *)
(* outside the grid of the spatial index from the start (on the canvas of  *)
(* 800 x 600 growth gets there after some fifteen ticks in one direction). *)
(***************************************************************************)
SmallCanvas == 100

InitSmallCanvas ==
    \E text \in Texts : \E radii \in Radii(text) :
        \E w \in {initialize(NewOrganicLayout(text, SmallCanvas, SmallCanvas),
                              radii)} :
            /\ layout = w.layout
            /\ heap = w.heap
            /\ spatialIndex = w.spatialIndex
            /\ lastCall = [op |-> "initialize"]
            /\ resetCount = 0

SpecSmallCanvas == InitSmallCanvas /\ [][Next]_vars

\* the steps of the last tick, in the order grow() made them
TickSteps == IF lastCall.op = "update" THEN lastCall.steps ELSE << >>

\* node object n lies within radius 50 of node object p
InQueryRange(n, p) ==
    DistLeq(n.position.x - p.position.x, n.position.y - p.position.y, 50 * Scale)

\* the nodes a step of the tick found were pushed by an earlier step of
\* the same tick
SeenFromEarlier(i) ==
    {r \in UNION {Range(TickSteps[j].pushed) : j \in 1..(i - 1)} :
        \E m \in 1..Len(TickSteps[i].nearbyNodes) :
            TickSteps[i].nearbyNodes[m].ref = r}

\* C23: within one tick the frontier is processed in queue order, and the
\* neighbour query made for a frontier node returns every node that an
\* earlier iteration of the same tick inserted into the spatial index
\* within radius 50 of it.
C23_SameTickVisibility ==
    /\ \A i \in 1..Len(TickSteps) : \A j \in 1..Len(TickSteps) :
           i < j =>
               \E a \in 1..Len(lastCall.frontier) :
                   \E b \in 1..Len(lastCall.frontier) :
                       /\ a < b
                       /\ lastCall.frontier[a] = TickSteps[i].parent
                       /\ lastCall.frontier[b] = TickSteps[j].parent
    /\ \A i \in 1..Len(TickSteps) : \A j \in 1..(i - 1) :
           \A k \in 1..Len(TickSteps[j].pushed) :
               InQueryRange(heap[TickSteps[j].pushed[k]],
                            heap[TickSteps[i].parent])
                   => TickSteps[j].pushed[k] \in SeenFromEarlier(i)

\* grow() on the current state of the engine, whatever the random draws
GrowIsNoOp ==
    \A heading \in Headings :
        LET w == grow(World, heading, {})
        IN  /\ w.layout.nodes = layout.nodes
            /\ w.layout.connections = layout.connections
            /\ w.layout.generation = layout.generation
            /\ w.layout.growthQueue = layout.growthQueue

\* C24: growth terminates.  generation counts the executed ticks since
\* the seeds were planted; while the frontier is not empty fewer than
\* max(1, text.length) ticks have been executed, every node of the
\* frontier stands at a text position no smaller than the number of ticks
\* executed, and with an empty frontier grow() changes neither the node
\* list nor the connections nor the generation counter.
C24_GrowthTerminates ==
    /\ layout.growthQueue # << >> =>
           layout.generation < Max(1, Len(layout.text))
    /\ \A i \in 1..Len(layout.growthQueue) :
           heap[layout.growthQueue[i]].textIndex >= layout.generation
    /\ layout.growthQueue = << >> => GrowIsNoOp

\* the tick that emptied the frontier was tick number text.length
C24_Witness ==
    /\ Ticked
    /\ layout.growthQueue = << >>
    /\ layout.generation = Len(layout.text)
    /\ layout.isGrowing

\* how often the node object of reference r is filed in the spatial index
TimesIndexed(r) ==
    SumOver([key \in DOMAIN spatialIndex.grid |->
                Cardinality({i \in 1..Len(spatialIndex.grid[key]) :
                                spatialIndex.grid[key][i].ref = r})],
            DOMAIN spatialIndex.grid)

\* C25: after initialize(), after every tick and after every eviction of
\* the governor the spatial index holds exactly the nodes of the node
\* list: every listed node is filed exactly once and no filed node is
\* missing from the list.
C25_IndexMatchesNodeList ==
    lastCall.op \in {"initialize", "update", "reset"} =>
        /\ IndexedRefs = Range(layout.nodes)
        /\ \A r \in Range(layout.nodes) : TimesIndexed(r) = 1

RECURSIVE CreatedUpTo(_)
\* the nodes the first n steps of the last tick added to the node list, in
\* the order they were added
CreatedUpTo(n) ==
    IF n = 0 THEN << >> ELSE CreatedUpTo(n - 1) \o TickSteps[n].pushed

\* C26: after an executed tick the frontier consists exactly of the nodes
\* created during the tick, in the order of their creation.  A processed
\* node whose candidate is accepted yields that primary child and at most
\* one secondary branch, a node whose candidate is rejected yields at most
\* one avoidance branch; only nodes of the old frontier are processed, and
\* no node of the old frontier is in the new one (the new frontier holds
\* objects younger than every node of the old one), so a node leaves the
\* frontier after one tick whether it grew, was blocked or was skipped.
C26_FrontierIsWhatTheTickCreated ==
    Ticked =>
        /\ layout.growthQueue = CreatedUpTo(Len(TickSteps))
        /\ \A s \in Steps :
               /\ s.parent \in Range(lastCall.frontier)
               /\ s.queued = s.pushed
               /\ s.avoidance = 0 =>
                      /\ Len(s.pushed) \in {1, 2}
                      /\ heap[s.pushed[1]].id = s.candidate.id
                      /\ heap[s.pushed[1]].position = s.candidate.position
               /\ s.avoidance = 1 => Len(s.pushed) <= 1
        /\ \A r \in Range(layout.growthQueue) :
               \A q \in Range(lastCall.frontier) : r > q

\* a tick in which one node yielded a primary child and a secondary
\* branch and another node, its candidate rejected, yielded nothing
C26_Witness ==
    /\ Ticked
    /\ \E s \in Steps : Len(s.pushed) = 2
    /\ \E s \in Steps : s.avoidance = 1 /\ s.pushed = << >>
    /\ Len(lastCall.steps) < Len(lastCall.frontier)

\* C27: after reset() the engine is in the state that construction
\* followed by initialize() gives for its text: the seeds only, generation
\* 0, no connections, the semantic field holding the semantic graph and
\* the collocation matrix derived from the text, and the adaptive
\* parameters at their initial values.
C27_ResetRestoresConstruction ==
    lastCall.op = "reset" =>
        \E radii \in Radii(layout.text) :
            LET w == initialize(NewOrganicLayout(layout.text, layout.canvasWidth,
                                                 layout.canvasHeight), radii)
            IN  /\ layout.nodes = w.layout.nodes
                /\ layout.growthQueue = w.layout.growthQueue
                /\ layout.generation = 0
                /\ layout.connections = << >>
                /\ layout.semanticField.semanticGraph
                       = w.layout.semanticField.semanticGraph
                /\ layout.semanticField.collocationMatrix
                       = w.layout.semanticField.collocationMatrix
                /\ layout.params.semanticGravity = InitialParams.semanticGravity
                /\ layout.params.interferenceAmplitude
                       = InitialParams.interferenceAmplitude
                /\ layout.params.energyDecay = InitialParams.energyDecay

\* C28: every node of the node list is labelled with the text unit at its
\* own text position: 0 <= textIndex < text.length and char is
\* text[textIndex] (text[textIndex + 1] in a sequence counted from 1).
C28_LabelIsTextAtIndex ==
    \A node \in ListedNodes :
        /\ 0 <= node.textIndex
        /\ node.textIndex < Len(layout.text)
        /\ node.char = layout.text[node.textIndex + 1]

\* v is what one step of adaptSystemParameters() makes of u: u scaled by
\* one of the two factors (in percent) or left alone, then clamped
OneStep(u, v, down, up) == v \in {Adapt(u, down), Adapt(u, 100), Adapt(u, up)}

\* the parameters p are what one pass of adaptSystemParameters() makes of q
OnePass(q, p) ==
    /\ OneStep(q.semanticGravity, p.semanticGravity, 95, 105)
    /\ OneStep(q.interferenceAmplitude, p.interferenceAmplitude, 90, 110)
    /\ OneStep(q.energyDecay, p.energyDecay, 90, 110)

FiledIds(si) == {it.id : it \in IndexedItems(si)}

\* C30: a failed update leaves the index unchanged.  update(item) either
\* files the item under its position and returns true, or returns false
\* with the set of indexed ids and the item count as before the call.
C30_FailedUpdateLeavesIndex ==
    [][lastCall'.op = "update" =>
          IF lastCall'.ret
          THEN lastCall'.item \in
                   Range(spatialIndex'.grid[
                       getGridKey(spatialIndex', lastCall'.item.position.x,
                                  lastCall'.item.position.y)])
          ELSE /\ FiledIds(spatialIndex') = FiledIds(spatialIndex)
               /\ spatialIndex'.itemCount = spatialIndex.itemCount]_vars

\* the recorded cluster patterns, by their member ids
RecordedClusters ==
    LET P == SelectSeq(layout.emergentPatterns,
                       LAMBDA pt : pt.type = "semantic_cluster")
    IN  [i \in 1..Len(P) |-> {heap[r].id : r \in Range(P[i].elements)}]

\* the Jaccard index of two sets of ids is at least 0.7
JaccardAtLeast07(A, B) ==
    10 * Cardinality(A \cap B) >= 7 * Cardinality(A \cup B)

\* the patterns of a type that the last pass recorded (a pattern carries
\* the generation counter of its pass, and the tick then counts it up)
RecordedByLastPass(type) ==
    SelectSeq(layout.emergentPatterns,
              LAMBDA pt : pt.type = type /\ pt.generation = layout.generation - 1)

\* C31: no two recorded semantic-cluster patterns overlap by a Jaccard
\* index of 0.7 or more on their member ids, while every spiral that the
\* recognizer finds in a pass is recorded, whether or not the same window
\* has been recorded before.
C31_ClustersDeduplicated ==
    /\ \A i \in 1..Len(RecordedClusters) : \A j \in 1..Len(RecordedClusters) :
           i < j => ~JaccardAtLeast07(RecordedClusters[i], RecordedClusters[j])
    /\ (Ticked /\ Len(lastCall.grown) >= MinPatternNodes) =>
           [i \in 1..Len(RecordedByLastPass("reading_spiral")) |->
               RecordedByLastPass("reading_spiral")[i].trajectory]
               = identifyReadingSpirals(layout.semanticField)

\* a pass has found a cluster that is none of the recorded ones and overlaps
\* a recorded one by 0.7 or more: the pass has not recorded it
C31_Witness ==
    /\ Ticked
    /\ \E c \in Range(identifySemanticClusters(layout.semanticField, heap,
                                               lastCall.grown)) :
           /\ \A k \in 1..Len(RecordedClusters) :
                  {heap[r].id : r \in Range(c)} # RecordedClusters[k]
           /\ \E i \in 1..Len(RecordedClusters) :
                  JaccardAtLeast07({heap[r].id : r \in Range(c)},
                                   RecordedClusters[i])

\* the semantic distance between the labels of the two endpoint nodes of a
\* connection
LabelDistance(conn) ==
    getSemanticDistance(layout.semanticField, heap[conn.fromRef].char,
                        heap[conn.toRef].char)

\* the connections the recognizer of the last tick reported as bridges
ReportedBridges ==
    identifySemanticBridges(layout.semanticField, lastCall.connections)

GrowableFrontier ==
    SelectSeq(layout.growthQueue,
              LAMBDA r : /\ heap[r].energy > 0
                         /\ heap[r].textIndex < Len(layout.text) - 1)

\* one step of the engine as C33 describes it
PausedStep ==
    /\ ~layout.isGrowing =>
           \A heading \in Headings : \A branches \in SUBSET CanBranch :
               grow(World, heading, branches) = World
    /\ (lastCall'.op = "update" /\ ~layout.isGrowing) =>
           /\ layout' = performMemoryOptimization(World).layout
           /\ heap' = heap
           /\ spatialIndex' = performMemoryOptimization(World).spatialIndex
           /\ lastCall'.steps = << >>
           /\ lastCall'.grown = layout.nodes
           /\ lastCall'.connections = layout.connections
    /\ lastCall'.op \in {"start", "pause"} =>
           /\ layout' = [layout EXCEPT !.isGrowing = (lastCall'.op = "start")]
           /\ heap' = heap
           /\ spatialIndex' = spatialIndex
    /\ (lastCall'.op = "update" /\ layout.isGrowing) =>
           /\ lastCall'.frontier = layout.growthQueue
           /\ [i \in 1..Len(lastCall'.steps) |-> lastCall'.steps[i].parent]
                  = GrowableFrontier

\* C33: while the engine is not growing, grow() changes nothing (node
\* list, connections, frontier, generation counter, spatial index,
\* trajectory, patterns and parameters), whatever the random draws, so
\* that an update() is the governor's pass over the state as it was;
\* start() and pause() change the growing flag only, and the next tick
\* processes, in order, the nodes of the frontier it finds, which is
\* therefore the frontier that was paused.
C33_PausedGrowChangesNothing == [][PausedStep]_vars

\* an update() of a paused engine that has grown before and has a frontier
\* left
C33_Witness ==
    /\ lastCall.op = "update"
    /\ ~lastCall.growing
    /\ lastCall.frontier # << >>
    /\ layout.generation > 0
    /\ layout.growthQueue = lastCall.frontier

\* no node has left the node list: every node object created since the
\* seeds were planted is listed
NoEviction == {layout.nodes[i] : i \in 1..Len(layout.nodes)} = DOMAIN heap

\* the positions of the connection list whose connection leads to an id
ConnectionsTo(id) ==
    {k \in 1..Len(layout.connections) : layout.connections[k].to = id}

\* the listed nodes that have a parent (the seeds have none)
NonSeeds == {r \in Range(layout.nodes) : heap[r].parent # << >>}

\* the listed seeds
ListedSeeds == {r \in Range(layout.nodes) : heap[r].parent = << >>}

\* C34: absent eviction, every node of the node list that is not a seed
\* has exactly one connection leading to its id, which comes from its
\* parent, and its id stands exactly once in the children list of that
\* parent; every connection leads to such a node, so there are as many
\* connections as nodes that are not seeds.
C34_ConnectionsMirrorParentLinks ==
    NoEviction =>
        /\ \A r \in NonSeeds :
               /\ Cardinality(ConnectionsTo(heap[r].id)) = 1
               /\ \A k \in ConnectionsTo(heap[r].id) :
                      layout.connections[k].from = heap[r].parent
               /\ \E p \in Range(layout.nodes) :
                      /\ heap[p].id = heap[r].parent
                      /\ Cardinality({j \in 1..Len(heap[p].children) :
                             heap[p].children[j] = heap[r].id}) = 1
               /\ \A p \in Range(layout.nodes) :
                      heap[p].id # heap[r].parent =>
                          \A j \in 1..Len(heap[p].children) :
                              heap[p].children[j] # heap[r].id
        /\ \A k \in 1..Len(layout.connections) :
               \E r \in NonSeeds : heap[r].id = layout.connections[k].to
        /\ Len(layout.connections) = Len(layout.nodes) - Cardinality(ListedSeeds)

\* a parent with two children, one of them a branch, and a grandchild, with
\* no node evicted
C34_Witness ==
    /\ NoEviction
    /\ \E p \in Range(layout.nodes) : Len(heap[p].children) >= 2
    /\ \E r \in NonSeeds : \E p \in NonSeeds : heap[r].parent = heap[p].id
    /\ \E k \in 1..Len(layout.connections) :
           layout.connections[k].type = "semantic_branch"

\* every node of the frontier is of the current generation and no listed
\* node is of a later one
GenerationsInStep ==
    /\ \A i \in 1..Len(layout.growthQueue) :
           heap[layout.growthQueue[i]].generation = layout.generation
    /\ \A i \in 1..Len(layout.nodes) :
           heap[layout.nodes[i]].generation <= layout.generation

\* one step of the engine as C35 describes it
CountedStep ==
    /\ GenerationsInStep
    /\ GenerationsInStep'
    /\ lastCall'.op = "update" =>
           layout'.generation =
               IF layout.isGrowing /\ layout.growthQueue # << >>
               THEN layout.generation + 1
               ELSE layout.generation
    /\ lastCall'.op \in {"start", "pause"} =>
           layout'.generation = layout.generation
    /\ lastCall'.op = "reset" => layout'.generation = 0

\* C35: the generation counter goes up by exactly 1 in every grow() that
\* runs a tick and stays in every grow() that returns early (not growing,
\* or empty frontier); in every state each node of the frontier has the
\* generation of the counter and no listed node has a greater one.
\* (update() is grow() followed by the governor, which does not write the
\* counter; start() and pause() leave it, reset() sets it to 0.)
C35_GenerationCountsTicks == [][CountedStep]_vars

\* the second tick has run: the frontier is of generation 2 and the list
\* still holds nodes of an earlier generation
C35_Witness ==
    /\ Ticked
    /\ layout.generation = 2
    /\ layout.growthQueue # << >>
    /\ \E i \in 1..Len(layout.nodes) : heap[layout.nodes[i]].generation < 2

\* the node object child was created from the node object parent by a
\* step that the guard of the loop of grow() let pass
CreatedFrom(child, parent) ==
    /\ heap[child].textIndex = heap[parent].textIndex + 1
    /\ heap[child].parent = heap[parent].id
    /\ heap[parent].textIndex < Len(layout.text) - 1
    /\ heap[parent].energy > 0

LastPass == expandAllClusters(layout.semanticField, heap, lastCall.grown)

\* the first member of a cluster is its seed and every other member has a
\* similarity to the seed's label above 0.7
SimilarToSeed(c) ==
    \A i \in 2..Len(c) :
        10 * (Unit - getSemanticDistance(layout.semanticField,
                                         heap[c[1]].char, heap[c[i]].char))
            > 7 * Unit

\* C37: every cluster a recognizer pass returns has at least 3 members; a
\* cluster is its seed node followed by nodes whose similarity to the
\* seed's label exceeds 0.7; and the clusters one pass expands, those it
\* discards for having at most 2 members included, are pairwise disjoint,
\* in node objects and in ids, and hold no node twice.
C37_ClustersOfOnePass ==
    (Ticked /\ Len(lastCall.grown) >= MinPatternNodes) =>
        /\ \A i \in 1..Len(LastPass.clusters) : Len(LastPass.clusters[i]) >= 3
        /\ LastPass.clusters
               = SelectSeq(LastPass.expanded, LAMBDA c : Len(c) > 2)
        /\ \A i \in 1..Len(LastPass.expanded) :
               /\ LastPass.expanded[i] # << >>
               /\ LastPass.expanded[i][1] \in Range(lastCall.grown)
               /\ Range(LastPass.expanded[i]) \subseteq Range(lastCall.grown)
               /\ SimilarToSeed(LastPass.expanded[i])
               /\ Cardinality({heap[r].id : r \in Range(LastPass.expanded[i])})
                      = Len(LastPass.expanded[i])
        /\ \A i \in 1..Len(LastPass.expanded) :
               \A j \in 1..Len(LastPass.expanded) :
                   i # j =>
                       /\ Range(LastPass.expanded[i])
                              \cap Range(LastPass.expanded[j]) = {}
                       /\ {heap[r].id : r \in Range(LastPass.expanded[i])}
                              \cap {heap[r].id : r \in Range(LastPass.expanded[j])}
                              = {}
        /\ \A i \in 1..Len(RecordedByLastPass("semantic_cluster")) :
               \E j \in 1..Len(LastPass.clusters) :
                   RecordedByLastPass("semantic_cluster")[i].elements
                       = LastPass.clusters[j]

\* a pass that returned a cluster of three or more nodes, recorded it, and
\* discarded another expansion that stayed at one or two nodes
C37_Witness ==
    /\ Ticked
    /\ Len(lastCall.grown) >= MinPatternNodes
    /\ LastPass.clusters # << >>
    /\ RecordedByLastPass("semantic_cluster") # << >>
    /\ \E i \in 1..Len(LastPass.expanded) : Len(LastPass.expanded[i]) <= 2

====
